---- MODULE Spec2Model ----
(***************************************************************************)
(* Task-manager bot (src/bot.py): the entity store (users, tasks,          *)
(* assignments), the APScheduler job store holding one recurring reminder  *)
(* job per task, the tick coroutine send_reminder, and the update handlers *)
(* that create, edit, delete, accept and complete tasks.  Further          *)
(* specifications apply the functions of the module directly (SpecArm,     *)
(* SpecOps), put schedule_reminder under a clock (SpecTimed), add restarts *)
(* of the process (SpecRestart), and follow the conversations update by    *)
(* update: those that create, edit and delete tasks (SpecConv), the        *)
(* registration (SpecRegister) and the comments (SpecComment).             *)
(*                                                                         *)
(* Atomicity follows asyncio: a coroutine runs without interruption from   *)
(* one await that performs I/O to the next, so every action below is the   *)
(* code between two such awaits.  Update handlers run one after another    *)
(* (the Application is built without concurrent_updates, and no handler is *)
(* registered with block=False), while every tick is its own task on the   *)
(* event loop and interleaves with the handler in flight and with the      *)
(* ticks of other tasks at their awaits.                                   *)
(***************************************************************************)
EXTENDS Integers, FiniteSets, Sequences, TLC

\* ------------------------------------------------------------------ bounds
MaxTaskId == 1       \* task ids range over 1..MaxTaskId
MaxTicks == 1        \* total number of ticks the scheduler dispatches
MaxArmId == 2        \* job ids of the scheduler-only specification
MaxArmInterval == 3  \* intervals of the scheduler-only specification
MaxArms == 2         \* schedule_reminder calls per job id between two removals
MaxEvaluations == 1  \* direct calls of the completion evaluation that notify, per task
MaxTime == 30        \* the clock of the timed specification stops here
MaxComments == 2     \* rows of the comments table

\* The clock counts units of five seconds.
StartDelay == 2      \* start_date: ten seconds after the call of schedule_reminder
UnitsPerMinute == 12 \* IntervalTrigger(minutes = notification_interval)

TaskIds == 1..MaxTaskId
\* The task ids of the specification with comments.
CommentTaskIds == {1, 2}
ArmIds == 1..MaxArmId \cup TaskIds \cup CommentTaskIds
\* Notification intervals a rector enters when creating a task.
Intervals == {30}

\* The users table after registration: id -> role (User.role, 'rector'/'staff').
InitUsers == (1 :> "rector") @@ (2 :> "rector") @@ (3 :> "staff") @@ (4 :> "staff")
UserIds == DOMAIN InitUsers
\* The phone number each of them registered with (User.phone_number, unique).
InitContacts == [u \in UserIds |-> u]

\* Text a rector may type at the edit prompt.
TextInputs == {"b", "2025-01-01 10:00", "5", "0"}
\* The inline buttons of edit_task_start, as the tokens between underscores.
EditFieldButtons ==
    { <<"edit", "field", "title">>,
      <<"edit", "field", "description">>,
      <<"edit", "field", "deadline">>,
      <<"edit", "field", "notification", "interval">> }

VARIABLES
    users,      \* users table: user id -> role
    tasks,      \* tasks table: task id -> [title, description, deadline, notification_interval]
    asg,        \* task_assignments table: task id -> (user id -> status)
    jobs,       \* scheduler job store: set of [id, interval]
    tick,       \* per task id, the send_reminder coroutine of that job
    h,          \* the update handler in flight (at most one)
    notified,   \* history: task id -> (user id -> completion messages attempted)
    armLog,     \* history: job id -> intervals given to schedule_reminder since the job was last removed
    nticks,     \* history: ticks dispatched
    clock,      \* the time and, per job id, the trigger and next run time of its job
    conv,       \* the task conversation in progress: its user, its state and its user_data
    reg,        \* registration conversations: user id -> [state, phone_number]
    contacts,   \* users table, column phone_number: user id -> phone number
    comments    \* comments table: comment id -> [task_id, user_id, comment_text, timestamp]

vars == <<users, tasks, asg, jobs, tick, h, notified, armLog, nticks, clock,
          conv, reg, contacts, comments>>

\* ------------------------------------------------------------ pure helpers
Empty == [x \in {} |-> 0]
NoHandler == [op |-> "none", pc |-> "none", t |-> 0, u |-> 0, todo |-> {}, raced |-> FALSE,
              arg |-> <<>>]
\* a handler that has finished its work on the store and awaits the delivery of
\* its reply; pc names the reply
Replying(op, pc, t, u) == [NoHandler EXCEPT !.op = op, !.pc = pc, !.t = t, !.u = u]
\* context.user_data of the user in a task conversation, before any handler wrote to it
NoUserData ==
    [task_title |-> "", task_description |-> "", task_deadline |-> 0,
     task_notification_interval |-> 0, selected_staff_ids |-> {},
     edit_task_id |-> 0, edit_task_field |-> "", delete_task_id |-> 0, comment_task_id |-> 0]
\* no task conversation in progress; data and text are the callback data and the text
\* of the last button and message the conversation received
NoConversation == [state |-> "END", user |-> 0, user_data |-> NoUserData, data |-> <<>>, text |-> ""]
\* The users whose registration conversations are followed: a registered one and two new ones.
Registrants == {1, 5, 6}
\* no registration conversation; reply names the last answer the user was given
NoRegistration == [state |-> "END", phone_number |-> 0, reply |-> "none"]
IdleTick == [pc |-> "idle", snap |-> Empty, todo |-> {}, sent |-> Empty, failed |-> FALSE]

Max(S) == CHOOSE x \in S : \A y \in S : y <= x

\* SQLite returns the rows of these queries in primary-key order: the first of them
First(S) == CHOOSE x \in S : \A y \in S : x <= y

Remove(f, k) == [x \in DOMAIN f \ {k} |-> f[x]]

\* SQLite assigns an INTEGER PRIMARY KEY one more than the largest id in the table.
NextTaskId(ts) == IF DOMAIN ts = {} THEN 1 ELSE Max(DOMAIN ts) + 1

Rectors(us) == {u \in DOMAIN us : us[u] = "rector"}
StaffMembers(us) == {u \in DOMAIN us : us[u] = "staff"}

JobIds(js) == {j.id : j \in js}

\* faulty variant: the job is added without replacing the one stored under the id
schedule_reminder_keeping_old(js, task_id, notification_interval) ==
    js \cup {[id |-> task_id, interval |-> notification_interval]}

\* scheduler.add_job(..., id=..., replace_existing=True)
schedule_reminder(js, task_id, notification_interval) ==
    {j \in js : j.id # task_id} \cup {[id |-> task_id, interval |-> notification_interval]}

\* faulty variant: the job is left in the store
remove_job_keeping(js, task_id) == js

\* scheduler.remove_job(id): the store without the job
remove_job(js, task_id) == {j \in js : j.id # task_id}

\* faulty variant: removing a job that is not in the store passes silently
remove_job_raises_never(js, task_id) == FALSE

\* scheduler.remove_job(id) raises JobLookupError when no job has the id
remove_job_raises(js, task_id) == task_id \notin JobIds(js)

\* send_reminder's test: all(...) over the loaded assignments (true when there are none)
all_completed(a) == \A u \in DOMAIN a : a[u] = "Completed"

\* notify_completion_if_all_completed's test: some assignment, and all Completed
all_assignments_completed(a) == DOMAIN a # {} /\ \A u \in DOMAIN a : a[u] = "Completed"

\* faulty variant: the status test of the loop is dropped
outstanding_everyone(a) == DOMAIN a

\* the recipients of one tick: the loaded assignments whose status is not Completed
outstanding(a) == {u \in DOMAIN a : a[u] # "Completed"}

\* create_task: the task row (lines 124-127)
create_task_row(title, description, deadline, notification_interval) ==
    [title |-> title, description |-> description, deadline |-> deadline,
     notification_interval |-> notification_interval]

\* faulty variant: an assignment is stored for every supplied id
create_task_assignments_unfiltered(us, assignee_ids) ==
    [u \in assignee_ids |-> "Pending"]

\* create_task: one Pending assignment per supplied id naming a user (lines 129-134)
create_task_assignments(us, assignee_ids) ==
    [u \in {a \in assignee_ids : a \in DOMAIN us} |-> "Pending"]

\* ---------------------------------------------------------------- initial
Init ==
    /\ users = InitUsers
    /\ tasks = Empty
    /\ asg = Empty
    /\ jobs = {}
    /\ tick = [t \in TaskIds |-> IdleTick]
    /\ h = NoHandler
    /\ notified = Empty
    /\ armLog = [t \in ArmIds |-> <<>>]
    /\ nticks = 0
    /\ clock = [now |-> 0, timers |-> Empty]
    /\ conv = NoConversation
    /\ reg = [u \in Registrants |-> NoRegistration]
    /\ contacts = InitContacts
    /\ comments = Empty

\* ------------------------------------------------------- scheduler: ticks
\* The interval trigger of job reminder_task_<t> fires: the executor creates the
\* send_reminder task unless an instance of the job is still running
\* (max_instances is 1).  The coroutine starts at a later turn of the loop.
job_fires(t) ==
    /\ t \in JobIds(jobs)
    /\ tick[t].pc = "idle"
    /\ nticks < MaxTicks
    /\ tick' = [tick EXCEPT ![t].pc = "dispatched"]
    /\ nticks' = nticks + 1
    /\ UNCHANGED <<users, tasks, asg, jobs, h, notified, armLog>>
    /\ UNCHANGED <<clock, conv, reg, contacts, comments>>

\* faulty variant: the tick announces the completion to every rector, unguarded
tick_completion_recipients_rectors(us) == Rectors(us)

\* lines 166-171: a tick that finds the task complete sends no message to anyone
tick_completion_recipients(us) == {}

\* send_reminder from its start to its first await (lines 157-178).
send_reminder(t) ==
    /\ tick[t].pc = "dispatched"
    /\ h' = IF h.op = "complete" /\ h.pc = "reply" /\ h.t = t
            THEN [h EXCEPT !.raced = TRUE] ELSE h
    /\ IF t \notin DOMAIN tasks
       THEN /\ tick' = [tick EXCEPT ![t] = IdleTick]
            /\ UNCHANGED <<jobs, armLog, notified>>
       ELSE IF all_completed(asg[t])
       THEN IF remove_job_raises(jobs, t)
            THEN /\ tick' = [tick EXCEPT ![t] = [IdleTick EXCEPT !.pc = "raised"]]
                 /\ UNCHANGED <<jobs, armLog, notified>>
            ELSE /\ jobs' = remove_job(jobs, t)
                 /\ armLog' = [armLog EXCEPT ![t] = <<>>]
                 /\ notified' = [notified EXCEPT ![t] =
                        [u \in DOMAIN @ |->
                            IF u \in tick_completion_recipients(users)
                            THEN @[u] + 1 ELSE @[u]]]
                 /\ tick' = [tick EXCEPT ![t] = IdleTick]
       ELSE /\ LET u == First(outstanding(asg[t])) IN
                tick' = [tick EXCEPT ![t] =
                    [pc |-> "loop", snap |-> asg[t], todo |-> DOMAIN asg[t] \ {u},
                     sent |-> [x \in DOMAIN asg[t] |-> IF x = u THEN 1 ELSE 0],
                     failed |-> FALSE]]
            /\ UNCHANGED <<jobs, armLog, notified>>
    /\ UNCHANGED <<users, tasks, asg, nticks>>
    /\ UNCHANGED <<clock, conv, reg, contacts, comments>>

\* The JobLookupError of line 168 leaves send_reminder: the executor logs it as the
\* failure of this run of the job and the instance is released.
send_reminder_raised(t) ==
    /\ tick[t].pc = "raised"
    /\ tick' = [tick EXCEPT ![t] = IdleTick]
    /\ UNCHANGED <<users, tasks, asg, jobs, h, notified, armLog, nticks>>
    /\ UNCHANGED <<clock, conv, reg, contacts, comments>>

\* faulty variant: the exception of a failed delivery leaves the loop
delivery_failure_aborts_loop(ok) == ~ok

\* lines 177-181: a failed delivery is caught and logged, the loop goes on
delivery_failure_aborts(ok) == FALSE

\* send_reminder from the return of one send_message to the next one, or to
\* session.close() (lines 173-183).  The statuses are those loaded at line 165.
send_reminder_resume(t, ok) ==
    /\ tick[t].pc = "loop"
    /\ LET rest == outstanding(tick[t].snap) \cap tick[t].todo IN
       IF rest = {} \/ (~ok /\ delivery_failure_aborts(ok))
       THEN tick' = [tick EXCEPT ![t] = IdleTick]
       ELSE LET u == First(rest) IN
                tick' = [tick EXCEPT ![t].todo = @ \ {u},
                                     ![t].sent[u] = @ + 1,
                                     ![t].failed = @ \/ ~ok]
    /\ UNCHANGED <<users, tasks, asg, jobs, h, notified, armLog, nticks>>
    /\ UNCHANGED <<clock, conv, reg, contacts, comments>>

\* ------------------------------------------------------ handlers: creation
\* create_task followed by schedule_reminder, as both creating handlers call them,
\* while the id of the new task is one of ids
create_and_schedule_in(ids, title, description, deadline, notification_interval, assignee_ids) ==
    LET id == NextTaskId(tasks) IN
    /\ id \in ids
    /\ tasks' = tasks @@ (id :> create_task_row(title, description, deadline, notification_interval))
    /\ asg' = asg @@ (id :> create_task_assignments(users, assignee_ids))
    /\ jobs' = schedule_reminder(jobs, id, notification_interval)
    /\ armLog' = [armLog EXCEPT ![id] = Append(@, notification_interval)]
    /\ notified' = notified @@ (id :> [u \in UserIds |-> 0])

\* create_task followed by schedule_reminder for the task ids of the model
create_and_schedule(title, description, deadline, notification_interval, assignee_ids) ==
    create_and_schedule_in(TaskIds, title, description, deadline, notification_interval,
                           assignee_ids)

\* assign_confirm with the selection and the task fields held in user_data
assign_confirm(selected_staff_ids, notification_interval) ==
    /\ h.op = "none"
    /\ IF selected_staff_ids = {}
       THEN UNCHANGED <<tasks, asg, jobs, armLog, notified>>
       ELSE create_and_schedule("a", "d", 1, notification_interval, selected_staff_ids)
    /\ UNCHANGED <<users, tick, h, nticks>>
    /\ UNCHANGED <<clock, conv, reg, contacts, comments>>

\* set_assignment_method with the choice assign_all
set_assignment_method_all(notification_interval) ==
    /\ h.op = "none"
    /\ LET staff_members == StaffMembers(users) IN
       IF staff_members = {}
       THEN UNCHANGED <<tasks, asg, jobs, armLog, notified>>
       ELSE create_and_schedule("a", "d", 1, notification_interval, staff_members)
    /\ UNCHANGED <<users, tick, h, nticks>>
    /\ UNCHANGED <<clock, conv, reg, contacts, comments>>

\* ------------------------------------------------------ handlers: deletion
\* faulty variant: the comments of a deleted task stay in their table
delete_orphan_keeping(cs, task_id) == cs

\* relationship(..., cascade='all, delete-orphan') of Task.comments (lines 81-82):
\* session.delete(task) deletes the comments of the task with it
delete_orphan(cs, task_id) == [c \in {x \in DOMAIN cs : cs[x].task_id # task_id} |-> cs[c]]

\* confirm_delete_task with user_data['delete_task_id'] = t, up to the await of its
\* reply (lines 912-933).  The job is removed first (lines 925-929); the task goes
\* with the commit of line 932, its assignments and comments by the cascade.
\* committed tells whether that commit succeeds: when it raises, the exception
\* leaves the handler with the job removed and the task stored.
confirm_delete_task_call(t, committed) ==
    /\ h.op = "none"
    /\ IF t \notin DOMAIN tasks
       THEN /\ h' = Replying("delete", "task_not_found", t, 0)
            /\ UNCHANGED <<tasks, asg, jobs, armLog, notified, comments>>
       ELSE /\ jobs' = remove_job(jobs, t)
            /\ armLog' = [armLog EXCEPT ![t] = <<>>]
            /\ IF committed
               THEN /\ tasks' = Remove(tasks, t)
                    /\ asg' = Remove(asg, t)
                    /\ comments' = delete_orphan(comments, t)
                    /\ notified' = Remove(notified, t)
                    /\ h' = Replying("delete", "deleted", t, 0)
               ELSE /\ h' = Replying("delete", "commit_raised", t, 0)
                    /\ UNCHANGED <<tasks, asg, notified, comments>>
    /\ UNCHANGED <<users, tick, nticks>>
    /\ UNCHANGED <<clock, conv, reg, contacts>>

\* confirm_delete_task whose commit succeeds
confirm_delete_task(t) == confirm_delete_task_call(t, TRUE)

\* confirm_delete_task when its reply returns: the handler ends
confirm_delete_task_replied ==
    /\ h.op = "delete"
    /\ h' = NoHandler
    /\ UNCHANGED <<users, tasks, asg, jobs, tick, notified, armLog, nticks>>
    /\ UNCHANGED <<clock, conv, reg, contacts, comments>>

\* ------------------------------------------------- handlers: accept, complete
\* The Accept and Complete buttons of a task are shown to a user who holds an
\* assignment of it (line 1064), and assignees are chosen among the staff (lines
\* 667, 690): the requests come from staff members, possibly through a button
\* shown before the task was deleted.
\* faulty variant: the status test of accept_task is dropped
accept_status_any(status) == "Accepted"

\* lines 1122-1123: the status accept_task leaves in the assignment
accept_status(status) == IF status = "Pending" THEN "Accepted" ELSE status

\* lines 1125, 1131: the reply accept_task sends for an assignment found in that status
accept_reply(status) ==
    IF status = "Pending" THEN "task_accepted" ELSE "task_already_accepted"

\* accept_task up to the await of its reply (lines 1106-1131)
accept_task(t, u) ==
    /\ h.op = "none"
    /\ IF t \in DOMAIN asg /\ u \in DOMAIN asg[t]
       THEN /\ asg' = [asg EXCEPT ![t][u] = accept_status(@)]
            /\ h' = Replying("accept", accept_reply(asg[t][u]), t, u)
       ELSE /\ h' = Replying("accept", "not_assigned", t, u)
            /\ UNCHANGED asg
    /\ UNCHANGED <<users, tasks, jobs, tick, notified, armLog, nticks>>
    /\ UNCHANGED <<clock, conv, reg, contacts, comments>>

\* accept_task when its reply returns: nothing of the state is read or written
\* any more (staff_my_tasks, called after the reply of an acceptance, fails on
\* update.message, which a callback query does not have).
accept_task_replied ==
    /\ h.op = "accept"
    /\ h' = NoHandler
    /\ UNCHANGED <<users, tasks, asg, jobs, tick, notified, armLog, nticks>>
    /\ UNCHANGED <<clock, conv, reg, contacts, comments>>

\* faulty variant: only an accepted assignment can be completed
complete_status_accepted_only(status) == IF status = "Accepted" THEN "Completed" ELSE status

\* lines 1152-1153: the status complete_task leaves in the assignment
complete_status(status) == IF status # "Completed" THEN "Completed" ELSE status

\* faulty variant: a repeated request is handled like the first
complete_reply_always(status) == "reply"

\* lines 1152-1162: what complete_task does next for an assignment found in that
\* status: "reply" is the confirmation followed by the completion evaluation
complete_reply(status) == IF status # "Completed" THEN "reply" ELSE "already_completed"

\* complete_task up to the await of its reply (lines 1136-1155).  A failure of the
\* first await, query.answer(), ends the handler before it has read anything.
complete_task(t, u) ==
    /\ h.op = "none"
    /\ IF t \notin DOMAIN asg \/ u \notin DOMAIN asg[t]
       THEN /\ h' = Replying("complete", "not_assigned", t, u)
            /\ UNCHANGED asg
       ELSE /\ asg' = [asg EXCEPT ![t][u] = complete_status(@)]
            /\ h' = Replying("complete", complete_reply(asg[t][u]), t, u)
    /\ UNCHANGED <<users, tasks, jobs, tick, notified, armLog, nticks>>
    /\ UNCHANGED <<clock, conv, reg, contacts, comments>>

\* complete_task when the reply of a refused request returns (lines 1147-1150,
\* 1161-1163): the handler ends
complete_task_refused ==
    /\ h.op = "complete" /\ h.pc \in {"not_assigned", "already_completed"}
    /\ h' = NoHandler
    /\ UNCHANGED <<users, tasks, asg, jobs, tick, notified, armLog, nticks>>
    /\ UNCHANGED <<clock, conv, reg, contacts, comments>>

\* notify_completion_if_all_completed from its start to its first await (lines
\* 186-220); the JobLookupError of its remove_job is caught (lines 202-206)
notify_completion_if_all_completed(t) ==
    /\ IF t \notin DOMAIN tasks \/ ~all_assignments_completed(asg[t])
       THEN /\ h' = NoHandler
            /\ UNCHANGED <<jobs, armLog, notified>>
       ELSE /\ jobs' = remove_job(jobs, t)
            /\ armLog' = [armLog EXCEPT ![t] = <<>>]
            /\ IF Rectors(users) = {}
               THEN h' = NoHandler /\ UNCHANGED notified
               ELSE LET r == First(Rectors(users)) IN
                        /\ notified' = [notified EXCEPT ![t][r] = @ + 1]
                        /\ h' = [Replying("complete", "notify", t, h.u) EXCEPT
                                    !.todo = Rectors(users) \ {r}, !.raced = h.raced]
    /\ UNCHANGED <<users, tasks, asg, tick, nticks>>
    /\ UNCHANGED <<clock, conv, reg, contacts, comments>>

\* complete_task when its reply returns: an exception of edit_message_text leaves
\* the handler; otherwise notify_completion_if_all_completed is called (line 1159)
complete_task_replied(ok) ==
    /\ h.op = "complete" /\ h.pc = "reply"
    /\ IF ok
       THEN notify_completion_if_all_completed(h.t)
       ELSE /\ h' = NoHandler
            /\ UNCHANGED <<users, tasks, asg, jobs, tick, notified, armLog, nticks, clock, conv, reg, contacts, comments>>

\* the loop over the rectors, from the return of one send_message to the next
\* (lines 215-227); a failed send is caught and logged
complete_task_notified ==
    /\ h.op = "complete" /\ h.pc = "notify"
    /\ IF h.todo = {}
       THEN h' = NoHandler /\ UNCHANGED notified
       ELSE LET r == First(h.todo) IN
                /\ notified' = [notified EXCEPT ![h.t][r] = @ + 1]
                /\ h' = [h EXCEPT !.todo = @ \ {r}]
    /\ UNCHANGED <<users, tasks, asg, jobs, tick, armLog, nticks>>
    /\ UNCHANGED <<clock, conv, reg, contacts, comments>>

Next ==
    \/ \E t \in TaskIds : job_fires(t)
    \/ \E t \in TaskIds : send_reminder(t)
    \/ \E t \in TaskIds : send_reminder_raised(t)
    \/ \E t \in TaskIds, ok \in BOOLEAN : send_reminder_resume(t, ok)
    \/ \E s \in SUBSET StaffMembers(users), i \in Intervals : assign_confirm(s, i)
    \/ \E i \in Intervals : set_assignment_method_all(i)
    \/ \E t \in TaskIds : confirm_delete_task(t)
    \/ confirm_delete_task_replied
    \/ \E t \in TaskIds, u \in StaffMembers(users) : accept_task(t, u)
    \/ accept_task_replied
    \/ \E t \in TaskIds, u \in StaffMembers(users) : complete_task(t, u)
    \/ complete_task_refused
    \/ \E ok \in BOOLEAN : complete_task_replied(ok)
    \/ complete_task_notified

Spec == Init /\ [][Next]_vars

\* ---------------------------------------------------------- handlers: edit
\* edit_task_field: the field name is the third token of the callback data
edit_task_field(data) == data[3]

\* str.isdigit, int and datetime.strptime(_, "%Y-%m-%d %H:%M") on the texts of TextInputs
isdigit(text) == text \in {"5", "0"}
int(text) == IF text = "5" THEN 5 ELSE 0
strptime(text) == IF text = "2025-01-01 10:00" THEN 2 ELSE -1

\* faulty variant: an assignment to a field puts the interval back to its default
assign_field_resetting_interval(task, field, new_value) ==
    [task EXCEPT !.notification_interval = 1]

\* lines 845-851, 871: the task row after the assignment to the named field
assign_field(task, field, new_value) ==
    IF field = "title" THEN [task EXCEPT !.title = new_value]
    ELSE IF field = "description" THEN [task EXCEPT !.description = new_value]
    ELSE IF field = "deadline" THEN [task EXCEPT !.deadline = strptime(new_value)]
    ELSE [task EXCEPT !.notification_interval = int(new_value)]

\* edit_task_value (lines 833-895) with user_data holding task_id and field, up to
\* the await of its reply.  committed tells whether session.commit() (line 888)
\* succeeds; when it raises, the assignment to the row is lost with the session,
\* no reply is sent, and what the scheduler was told before stays.  arg is what
\* the handler keeps of the update while it awaits its reply.
edit_task_value_call(task_id, field, new_value, arg, committed) ==
    /\ h.op = "none"
    /\ LET Reply(pc) == [Replying("edit", pc, task_id, 0) EXCEPT !.arg = arg]
           Commit == /\ tasks' = IF committed
                                 THEN [tasks EXCEPT ![task_id] = assign_field(@, field, new_value)]
                                 ELSE tasks
                     /\ h' = IF committed THEN Reply("updated") ELSE Reply("commit_raised")
       IN
       IF task_id \notin DOMAIN tasks
       THEN /\ h' = Reply("task_not_found")
            /\ UNCHANGED <<tasks, jobs, armLog>>
       ELSE IF field \in {"title", "description"}
       THEN Commit /\ UNCHANGED <<jobs, armLog>>
       ELSE IF field = "deadline"
       THEN IF strptime(new_value) = -1
            THEN /\ h' = Reply("invalid_deadline")
                 /\ UNCHANGED <<tasks, jobs, armLog>>
            ELSE Commit /\ UNCHANGED <<jobs, armLog>>
       ELSE IF field = "notification_interval"
       THEN IF ~isdigit(new_value) \/ int(new_value) <= 0
            THEN /\ h' = Reply("invalid_interval")
                 /\ UNCHANGED <<tasks, jobs, armLog>>
            ELSE /\ jobs' = schedule_reminder(remove_job(jobs, task_id), task_id, int(new_value))
                 /\ armLog' = [armLog EXCEPT ![task_id] = <<int(new_value)>>]
                 /\ Commit
       ELSE /\ h' = Reply("invalid_field")
            /\ UNCHANGED <<tasks, jobs, armLog>>
    /\ UNCHANGED <<users, asg, tick, notified, nticks>>
    /\ UNCHANGED <<clock, conv, reg, contacts, comments>>

\* edit_task_value in the edit conversation: user_data holds the task id chosen in
\* edit_task_start and the field stored by edit_task_field for the pressed button.
\* The handler keeps the pressed button and the typed text while it awaits its reply.
edit_task_value(task_id, data, new_value) ==
    edit_task_value_call(task_id, edit_task_field(data), new_value, <<data, new_value>>, TRUE)

\* edit_task_value when its reply returns: the conversation ends, or stays at the
\* value prompt after an invalid value; the store is not touched again
edit_task_value_replied ==
    /\ h.op = "edit"
    /\ h' = NoHandler
    /\ UNCHANGED <<users, tasks, asg, jobs, tick, notified, armLog, nticks>>
    /\ UNCHANGED <<clock, conv, reg, contacts, comments>>

NextEdit ==
    \/ Next
    \/ \E t \in TaskIds, data \in EditFieldButtons, v \in TextInputs : edit_task_value(t, data, v)
    \/ edit_task_value_replied

\* The handlers and the scheduler together with the edit conversation.
SpecEdit == Init /\ [][NextEdit]_vars

\* ------------------------------------------------ the scheduler on its own
\* schedule_reminder and remove_job applied to arbitrary job ids and intervals.
arm(task_id, notification_interval) ==
    /\ Len(armLog[task_id]) < MaxArms
    /\ jobs' = schedule_reminder(jobs, task_id, notification_interval)
    /\ armLog' = [armLog EXCEPT ![task_id] = Append(@, notification_interval)]
    /\ UNCHANGED <<users, tasks, asg, tick, h, notified, nticks>>
    /\ UNCHANGED <<clock, conv, reg, contacts, comments>>

disarm(task_id) ==
    /\ jobs' = remove_job(jobs, task_id)
    /\ armLog' = [armLog EXCEPT ![task_id] = <<>>]
    /\ UNCHANGED <<users, tasks, asg, tick, h, notified, nticks>>
    /\ UNCHANGED <<clock, conv, reg, contacts, comments>>

NextArm ==
    \/ \E t \in 1..MaxArmId, i \in 1..MaxArmInterval : arm(t, i)
    \/ \E t \in 1..MaxArmId : disarm(t)

SpecArm == Init /\ [][NextArm]_vars

\* ------------------------------------------------------------ process restart
\* The process ends and the module is loaded again: the database file keeps the
\* store, while the scheduler created at line 101 is new and its job store, which
\* lives in memory, is empty; the coroutines of the old process are gone.  The
\* application is built without persistence, so the states of the conversation
\* handlers and context.user_data are gone too: every conversation is at END.
restart ==
    /\ jobs' = {}
    /\ armLog' = [t \in ArmIds |-> <<>>]
    /\ tick' = [t \in TaskIds |-> IdleTick]
    /\ h' = Replying("startup", "main", 0, 0)
    /\ conv' = NoConversation
    /\ reg' = [u \in Registrants |-> NoRegistration]
    /\ UNCHANGED <<users, tasks, asg, notified, nticks, clock, contacts, comments>>

\* main: the application is built, the handlers are registered and polling
\* starts; nothing reads the tasks table or arms a job
main ==
    /\ h.op = "startup"
    /\ h' = NoHandler
    /\ UNCHANGED <<users, tasks, asg, jobs, tick, notified, armLog, nticks, clock, conv, reg, contacts, comments>>

NextRestart ==
    \/ Next
    \/ restart
    \/ main

\* The bot with restarts of its process.
SpecRestart == Init /\ [][NextRestart]_vars

\* ------------------------------------------------ the scheduler under a clock
\* schedule_reminder and the interval triggers with the time they run at.  The
\* scheduler wakes at the next run time of a job, so the clock does not pass a
\* run time that is due.
TimedIds == {1}
TimedIntervals == {1, 2}

\* IntervalTrigger(minutes = notification_interval, start_date = now + 10 seconds)
IntervalTrigger(now, notification_interval) ==
    [start_date |-> now + StartDelay, interval |-> notification_interval * UnitsPerMinute]

\* IntervalTrigger.get_next_fire_time: the start date for a job that has not run,
\* one interval after the previous run otherwise
get_next_fire_time(trigger, previous_fire_time) ==
    IF previous_fire_time = -1 THEN trigger.start_date
    ELSE previous_fire_time + trigger.interval

\* faulty variant: a job that replaces another keeps the run time of the old one
add_job_keeping_run_time(timers, now, id, notification_interval) ==
    LET trigger == IntervalTrigger(now, notification_interval) IN
    [x \in DOMAIN timers \cup {id} |->
        IF x # id THEN timers[x]
        ELSE [trigger |-> trigger,
              next_run_time |-> IF id \in DOMAIN timers THEN timers[id].next_run_time
                                ELSE get_next_fire_time(trigger, -1)]]

\* add_job(..., replace_existing=True) at time now: the job stored under the id has
\* the new trigger and the first run time of that trigger
add_job(timers, now, id, notification_interval) ==
    LET trigger == IntervalTrigger(now, notification_interval) IN
    [x \in DOMAIN timers \cup {id} |->
        IF x # id THEN timers[x]
        ELSE [trigger |-> trigger, next_run_time |-> get_next_fire_time(trigger, -1)]]

\* schedule_reminder called at the current time.  The history kept with the timers:
\* when the job was armed last, whether that replaced a job that had not run yet,
\* and the times the job has run at since.
schedule_reminder_at(id, notification_interval) ==
    /\ Len(armLog[id]) < MaxArms
    /\ jobs' = schedule_reminder(jobs, id, notification_interval)
    /\ armLog' = [armLog EXCEPT ![id] = Append(@, notification_interval)]
    /\ clock' = [clock EXCEPT
           !.timers = [x \in DOMAIN clock.timers \cup {id} |->
               IF x # id THEN clock.timers[x]
               ELSE [job |-> add_job([y \in DOMAIN clock.timers |-> clock.timers[y].job],
                                     clock.now, id, notification_interval)[id],
                     armed_at |-> clock.now,
                     replaced_unrun |-> id \in DOMAIN clock.timers /\ clock.timers[id].ran = <<>>,
                     ran |-> <<>>]]]
    /\ UNCHANGED <<users, tasks, asg, tick, h, notified, nticks>>
    /\ UNCHANGED <<conv, reg, contacts, comments>>

\* the scheduler runs the job whose run time has come and computes its next one
timer_fires(id) ==
    /\ id \in DOMAIN clock.timers
    /\ clock.timers[id].job.next_run_time = clock.now
    /\ clock' = [clock EXCEPT
           !.timers[id].job.next_run_time =
               get_next_fire_time(clock.timers[id].job.trigger, clock.now),
           !.timers[id].ran = Append(@, clock.now)]
    /\ UNCHANGED <<users, tasks, asg, jobs, tick, h, notified, armLog, nticks>>
    /\ UNCHANGED <<conv, reg, contacts, comments>>

\* five seconds pass; no job is due
time_passes ==
    /\ clock.now < MaxTime
    /\ \A id \in DOMAIN clock.timers : clock.timers[id].job.next_run_time # clock.now
    /\ clock' = [clock EXCEPT !.now = @ + 1]
    /\ UNCHANGED <<users, tasks, asg, jobs, tick, h, notified, armLog, nticks>>
    /\ UNCHANGED <<conv, reg, contacts, comments>>

NextTimed ==
    \/ \E id \in TimedIds, i \in TimedIntervals : schedule_reminder_at(id, i)
    \/ \E id \in TimedIds : timer_fires(id)
    \/ time_passes

SpecTimed == Init /\ [][NextTimed]_vars

\* --------------------------- the store and scheduler functions called directly
\* Assignee lists given to create_task: none, known users, an id naming no user.
AssigneeIdInputs == {{}, {3}, {3, 4}, {5}, {3, 5}}

\* create_task (lines 124-136) on its own
create_task(title, description, deadline, notification_interval, assignee_ids) ==
    LET id == NextTaskId(tasks) IN
    /\ h.op = "none"
    /\ id <= MaxTaskId
    /\ tasks' = tasks @@ (id :> create_task_row(title, description, deadline, notification_interval))
    /\ asg' = asg @@ (id :> create_task_assignments(users, assignee_ids))
    /\ notified' = notified @@ (id :> [u \in UserIds |-> 0])
    /\ h' = [Replying("create_task", "return", id, 0) EXCEPT !.arg = <<assignee_ids>>]
    /\ UNCHANGED <<users, jobs, tick, armLog, nticks>>
    /\ UNCHANGED <<clock, conv, reg, contacts, comments>>

\* create_task returns the task it stored (line 136) and its caller arms the job
\* of that task with the interval it stored, with no await in between (lines
\* 703-706, 784-788); no other call of schedule_reminder is reached
create_task_returned ==
    /\ h.op = "create_task"
    /\ h' = NoHandler
    /\ jobs' = schedule_reminder(jobs, h.t, tasks[h.t].notification_interval)
    /\ armLog' = [armLog EXCEPT ![h.t] = Append(@, tasks[h.t].notification_interval)]
    /\ UNCHANGED <<users, tasks, asg, tick, notified, nticks>>
    /\ UNCHANGED <<clock, conv, reg, contacts, comments>>

\* notify_completion_if_all_completed (lines 185-227) called for a task id
notify_completion_call(t) ==
    /\ h.op = "none"
    /\ t \in DOMAIN notified => \A r \in UserIds : notified[t][r] < MaxEvaluations
    /\ notify_completion_if_all_completed(t)

\* The functions of the module: create_task with any assignee list followed by
\* schedule_reminder for the task it stored, the ticks, the completion of an
\* assignment and the completion evaluation.
NextOps ==
    \/ \E a \in AssigneeIdInputs, i \in Intervals : create_task("a", "d", 1, i, a)
    \/ create_task_returned
    \/ \E t \in TaskIds : job_fires(t)
    \/ \E t \in TaskIds : send_reminder(t)
    \/ \E t \in TaskIds : send_reminder_raised(t)
    \/ \E t \in TaskIds, ok \in BOOLEAN : send_reminder_resume(t, ok)
    \/ \E t \in TaskIds, u \in StaffMembers(users) : complete_task(t, u)
    \/ complete_task_refused
    \/ \E ok \in BOOLEAN : complete_task_replied(ok)
    \/ complete_task_notified
    \/ \E t \in TaskIds : notify_completion_call(t)

SpecOps == Init /\ [][NextOps]_vars

\* ------------------------------------------------- the task conversations
\* The conversations that create, edit and delete a task, one update at a time.
\* Their entry points (lines 1253, 1271, 1282) test neither the registration nor
\* the role of the sender: the text of the New Task key and the buttons of
\* rector_task_action are handled for whoever sends them.  One conversation is
\* followed at a time.
Senders == {1, 3, 5}   \* a rector, a staff member, an id that is not registered

\* The ids of the tasks the conversations create: one more than TaskIds, so that
\* a conversation left open by a failed reply can create a second task.
ConvTaskIds == 1..(MaxTaskId + 1)

\* The texts typed at each prompt of the creation conversation: for the title and
\* the description a text, a blank one and one with blanks around it; for the
\* deadline a date and a text that is none; for the interval a positive number,
\* zero and a text that is no number.
PromptTexts(state) ==
    IF state \in {"RECTOR_TASK_TITLE", "RECTOR_TASK_DESCRIPTION"} THEN {"b", " ", " b "}
    ELSE IF state = "RECTOR_TASK_DEADLINE" THEN {"2025-01-01 10:00", "b"}
    ELSE {"5", "0", "b"}
\* The texts typed at the value prompt of the edit conversation for each stored
\* field name.
EditTexts(field) ==
    IF field = "title" THEN {"5", " "}
    ELSE IF field = "description" THEN {"5"}
    ELSE IF field = "deadline" THEN {"2025-01-01 10:00", "b"}
    ELSE {"5", "0", "b"}
\* str.strip on the texts typed at the prompts
strip(text) == IF text = " " THEN "" ELSE IF text = " b " THEN "b" ELSE text

\* a handler of a conversation that writes to user_data only
user_data_only ==
    UNCHANGED <<users, tasks, asg, jobs, tick, h, notified, armLog, nticks, clock,
                reg, contacts, comments>>

\* rector_new_task (lines 563-569)
rector_new_task(u) ==
    /\ h.op = "none" /\ conv.state = "END"
    /\ conv' = [NoConversation EXCEPT !.state = "RECTOR_TASK_TITLE", !.user = u]
    /\ user_data_only

\* handle_rector_task_title (lines 571-581)
handle_rector_task_title(text) ==
    /\ h.op = "none" /\ conv.state = "RECTOR_TASK_TITLE"
    /\ LET title == strip(text) IN
       conv' = IF title = "" THEN [conv EXCEPT !.text = text]
               ELSE [conv EXCEPT !.text = text, !.user_data.task_title = title,
                                 !.state = "RECTOR_TASK_DESCRIPTION"]
    /\ user_data_only

\* handle_rector_task_description (lines 583-593)
handle_rector_task_description(text) ==
    /\ h.op = "none" /\ conv.state = "RECTOR_TASK_DESCRIPTION"
    /\ LET description == strip(text) IN
       conv' = IF description = "" THEN [conv EXCEPT !.text = text]
               ELSE [conv EXCEPT !.text = text, !.user_data.task_description = description,
                                 !.state = "RECTOR_TASK_DEADLINE"]
    /\ user_data_only

\* handle_rector_task_deadline (lines 595-607)
handle_rector_task_deadline(text) ==
    /\ h.op = "none" /\ conv.state = "RECTOR_TASK_DEADLINE"
    /\ LET deadline == strptime(strip(text)) IN
       conv' = IF deadline = -1 THEN [conv EXCEPT !.text = text]
               ELSE [conv EXCEPT !.text = text, !.user_data.task_deadline = deadline,
                                 !.state = "RECTOR_TASK_NOTIFICATION_INTERVAL"]
    /\ user_data_only

\* handle_rector_task_notification_interval (lines 609-636)
handle_rector_task_notification_interval(text) ==
    /\ h.op = "none" /\ conv.state = "RECTOR_TASK_NOTIFICATION_INTERVAL"
    /\ LET interval_input == strip(text) IN
       conv' = IF ~isdigit(interval_input) \/ int(interval_input) <= 0
               THEN [conv EXCEPT !.text = text]
               ELSE [conv EXCEPT !.text = text,
                                 !.user_data.task_notification_interval = int(interval_input),
                                 !.state = "ASSIGNMENT_METHOD"]
    /\ user_data_only

\* create_task whose second commit (line 134) raises: the task row, committed at
\* line 127, stays; the exception leaves the handler before schedule_reminder
create_task_interrupted(title, description, deadline, notification_interval) ==
    LET id == NextTaskId(tasks) IN
    /\ id \in ConvTaskIds
    /\ tasks' = tasks @@ (id :> create_task_row(title, description, deadline, notification_interval))
    /\ asg' = asg @@ (id :> Empty)
    /\ notified' = notified @@ (id :> [u \in UserIds |-> 0])
    /\ UNCHANGED <<jobs, armLog>>

\* create_task and schedule_reminder with the fields held in user_data, up to the
\* await of the reply task_created (lines 696-708, 778-790); stored tells whether
\* the commit of the assignments succeeds.  The conversation keeps its state while
\* the handler runs, and for good when an exception leaves the handler.
create_from_user_data(assignee_ids, stored) ==
    LET d == conv.user_data IN
    IF stored
    THEN /\ create_and_schedule_in(ConvTaskIds, d.task_title, d.task_description,
                                   d.task_deadline, d.task_notification_interval,
                                   assignee_ids)
         /\ h' = Replying("create", "task_created", NextTaskId(tasks), conv.user)
         /\ UNCHANGED conv
    ELSE /\ create_task_interrupted(d.task_title, d.task_description, d.task_deadline,
                                    d.task_notification_interval)
         /\ conv' = [conv EXCEPT !.data = <<>>]
         /\ UNCHANGED h

\* set_assignment_method (lines 660-709)
set_assignment_method(choice, stored) ==
    /\ h.op = "none" /\ conv.state = "ASSIGNMENT_METHOD"
    /\ LET staff_members == StaffMembers(users) IN
       IF staff_members = {}
       THEN /\ conv' = NoConversation
            /\ UNCHANGED <<tasks, asg, jobs, armLog, notified, h>>
       ELSE IF choice = "assign_specific"
       THEN /\ conv' = [conv EXCEPT !.user_data.selected_staff_ids = {},
                                    !.state = "RECTOR_TASK_ASSIGNEE"]
            /\ UNCHANGED <<tasks, asg, jobs, armLog, notified, h>>
       ELSE create_from_user_data(staff_members, stored)
    /\ UNCHANGED <<users, tick, nticks, clock, reg, contacts, comments>>

\* The ids carried by callback data matching ^assign_staff_\d+$ (line 1262): the
\* buttons of the staff members, and an id that names no user.
StaffIdInputs(us) == StaffMembers(us) \cup {5}

\* assign_staff_selection (lines 638-658): the id of the callback data is toggled
\* in user_data (lines 645-650) before the user is looked up; for an id that names
\* no user line 657 raises on None, which leaves the selection as stored and the
\* conversation in its state, as the return of the handler does
assign_staff_selection(staff_id) ==
    /\ h.op = "none" /\ conv.state = "RECTOR_TASK_ASSIGNEE"
    /\ conv' = [conv EXCEPT !.user_data.selected_staff_ids =
                   IF staff_id \notin @ THEN @ \cup {staff_id} ELSE @ \ {staff_id}]
    /\ user_data_only

\* assign_confirm (lines 769-791) in the conversation
rector_task_conv_confirm(stored) ==
    /\ h.op = "none" /\ conv.state = "RECTOR_TASK_ASSIGNEE"
    /\ IF conv.user_data.selected_staff_ids = {}
       THEN /\ conv' = NoConversation
            /\ UNCHANGED <<tasks, asg, jobs, armLog, notified, h>>
       ELSE create_from_user_data(conv.user_data.selected_staff_ids, stored)
    /\ UNCHANGED <<users, tick, nticks, clock, reg, contacts, comments>>

\* set_assignment_method or assign_confirm when the reply task_created returns
\* (lines 708-709, 790-791): the handler returns ConversationHandler.END; a reply
\* that raises leaves the handler by its exception and the conversation in its
\* state, with the task stored and its job armed
rector_task_conv_returned(ok) ==
    /\ h.op = "create"
    /\ h' = NoHandler
    /\ conv' = IF ok THEN NoConversation ELSE conv
    /\ UNCHANGED <<users, tasks, asg, jobs, tick, notified, armLog, nticks, clock,
                   reg, contacts, comments>>

\* cancel (lines 793-800), the fallback of every conversation
cancel ==
    /\ h.op = "none" /\ conv.state # "END"
    /\ conv' = NoConversation
    /\ user_data_only

\* edit_task_start (lines 803-818), from the Edit button of rector_task_action
edit_task_start(u, task_id) ==
    /\ h.op = "none" /\ conv.state = "END"
    /\ conv' = [NoConversation EXCEPT !.state = "EDIT_TASK_FIELD", !.user = u,
                                      !.user_data.edit_task_id = task_id]
    /\ user_data_only

\* edit_task_field as a handler (lines 820-831): the field is stored in user_data
edit_task_conv_field(data) ==
    /\ h.op = "none" /\ conv.state = "EDIT_TASK_FIELD"
    /\ conv' = [conv EXCEPT !.data = data, !.user_data.edit_task_field = edit_task_field(data),
                            !.state = "EDIT_TASK_VALUE"]
    /\ user_data_only

\* edit_task_value in the conversation: the task id and the field are those of
\* user_data, the value is the stripped text (line 835)
edit_task_conv_value(text) ==
    /\ conv.state = "EDIT_TASK_VALUE"
    /\ edit_task_field(conv.data) = conv.user_data.edit_task_field
    /\ edit_task_value(conv.user_data.edit_task_id, conv.data, strip(text))

\* the state edit_task_value returns after a reply (lines 856, 864, 869, 886, 895)
edit_task_value_returns(reply) ==
    IF reply \in {"invalid_deadline", "invalid_interval"} THEN "EDIT_TASK_VALUE" ELSE "END"

\* edit_task_value returns: the conversation takes the returned state; a reply
\* that raises leaves the conversation in its state
edit_task_conv_returned(ok) ==
    /\ h.op = "edit"
    /\ h' = NoHandler
    /\ conv' = IF ok /\ edit_task_value_returns(h.pc) = "END" THEN NoConversation ELSE conv
    /\ UNCHANGED <<users, tasks, asg, jobs, tick, notified, armLog, nticks, clock,
                   reg, contacts, comments>>

\* delete_task_start (lines 898-910), from the Delete button of rector_task_action
delete_task_start(u, task_id) ==
    /\ h.op = "none" /\ conv.state = "END"
    /\ conv' = [NoConversation EXCEPT !.state = "CONFIRM_DELETE_TASK", !.user = u,
                                      !.user_data.delete_task_id = task_id]
    /\ user_data_only

\* confirm_delete_task in the conversation
delete_task_conv_confirm(committed) ==
    /\ conv.state = "CONFIRM_DELETE_TASK"
    /\ confirm_delete_task_call(conv.user_data.delete_task_id, committed)

\* confirm_delete_task returns ConversationHandler.END (lines 922, 939); the
\* exception of the commit, or of a reply that raises, leaves the conversation in
\* its state
delete_task_conv_returned(ok) ==
    /\ h.op = "delete"
    /\ h' = NoHandler
    /\ conv' = IF ok /\ h.pc # "commit_raised" THEN NoConversation ELSE conv
    /\ UNCHANGED <<users, tasks, asg, jobs, tick, notified, armLog, nticks, clock,
                   reg, contacts, comments>>

\* confirm_delete_after_completion up to the await of its reply (lines 941-962).
\* main registers it outside the conversations for the callback data
\* delete_task_<id>_confirm (line 1330): the task id is the third token of the
\* data, and neither the sender nor a conversation state is tested.  The job is
\* removed first (lines 953-957), the task goes with the commit of line 961.
confirm_delete_after_completion(t, committed) ==
    /\ h.op = "none"
    /\ IF t \notin DOMAIN tasks
       THEN /\ h' = Replying("delete_after_completion", "task_not_found", t, 0)
            /\ UNCHANGED <<tasks, asg, jobs, armLog, notified, comments>>
       ELSE /\ jobs' = remove_job(jobs, t)
            /\ armLog' = [armLog EXCEPT ![t] = <<>>]
            /\ IF committed
               THEN /\ tasks' = Remove(tasks, t)
                    /\ asg' = Remove(asg, t)
                    /\ comments' = delete_orphan(comments, t)
                    /\ notified' = Remove(notified, t)
                    /\ h' = Replying("delete_after_completion", "deleted", t, 0)
               ELSE /\ h' = Replying("delete_after_completion", "commit_raised", t, 0)
                    /\ UNCHANGED <<tasks, asg, notified, comments>>
    /\ UNCHANGED <<users, tick, nticks>>
    /\ UNCHANGED <<clock, conv, reg, contacts>>

\* confirm_delete_after_completion ends (lines 946-949, 962-965); no conversation
\* is involved
confirm_delete_after_completion_replied ==
    /\ h.op = "delete_after_completion"
    /\ h' = NoHandler
    /\ UNCHANGED <<users, tasks, asg, jobs, tick, notified, armLog, nticks>>
    /\ UNCHANGED <<clock, conv, reg, contacts, comments>>

NextConv ==
    \/ \E u \in Senders : rector_new_task(u)
    \/ \E text \in PromptTexts(conv.state) : handle_rector_task_title(text)
    \/ \E text \in PromptTexts(conv.state) : handle_rector_task_description(text)
    \/ \E text \in PromptTexts(conv.state) : handle_rector_task_deadline(text)
    \/ \E text \in PromptTexts(conv.state) : handle_rector_task_notification_interval(text)
    \/ \E choice \in {"assign_specific", "assign_all"}, stored \in BOOLEAN :
           set_assignment_method(choice, stored)
    \/ \E staff_id \in StaffIdInputs(users) : assign_staff_selection(staff_id)
    \/ \E stored \in BOOLEAN : rector_task_conv_confirm(stored)
    \/ \E ok \in BOOLEAN : rector_task_conv_returned(ok)
    \/ cancel
    \/ \E u \in Senders, t \in ConvTaskIds : edit_task_start(u, t)
    \/ \E data \in EditFieldButtons : edit_task_conv_field(data)
    \/ \E text \in EditTexts(conv.user_data.edit_task_field) : edit_task_conv_value(text)
    \/ \E ok \in BOOLEAN : edit_task_conv_returned(ok)
    \/ \E u \in Senders, t \in ConvTaskIds : delete_task_start(u, t)
    \/ \E committed \in BOOLEAN : delete_task_conv_confirm(committed)
    \/ \E ok \in BOOLEAN : delete_task_conv_returned(ok)
    \/ \E t \in ConvTaskIds, committed \in BOOLEAN : confirm_delete_after_completion(t, committed)
    \/ confirm_delete_after_completion_replied

\* The conversations that create, edit and delete tasks, for any sender.
SpecConv == Init /\ [][NextConv]_vars

\* ---------------------------------------------------------- registration
\* The registration conversation of several Telegram users, one update at a time:
\* the conversations of different users interleave between their updates.
PhoneInputs == {1, 7}        \* the number user 1 registered with, and a new one
NameInputs == {"n", " "}
\* Callback data matching the pattern of the set_role handler, ^role_.* (line 1245),
\* as the tokens between underscores; the first two are the buttons of line 360.
RoleData == {<<"role", "rector">>, <<"role", "staff">>, <<"role", "admin">>}

registration_only == UNCHANGED <<tasks, asg, jobs, tick, notified, armLog, nticks,
                                 clock, conv, comments>>

\* register (lines 273-302)
register(user_id) ==
    /\ h.op = "none" /\ reg[user_id].state = "END"
    /\ reg' = [reg EXCEPT ![user_id] =
                 IF user_id \in DOMAIN users
                 THEN [NoRegistration EXCEPT !.reply = "already_registered"]
                 ELSE [NoRegistration EXCEPT !.state = "REGISTER_CONTACT",
                                             !.reply = "share_phone"]]
    /\ UNCHANGED <<users, contacts>>
    /\ UNCHANGED h
    /\ registration_only

\* handle_contact (lines 304-334): the shared number is looked up in the users table
handle_contact(user_id, phone_number) ==
    /\ h.op = "none" /\ reg[user_id].state = "REGISTER_CONTACT"
    /\ LET existing == {u \in DOMAIN contacts : contacts[u] = phone_number} IN
       reg' = [reg EXCEPT ![user_id] =
                 IF existing # {}
                 THEN [NoRegistration EXCEPT !.reply =
                          IF user_id \in existing THEN "already_registered"
                          ELSE "registered_to_another_user"]
                 ELSE [state |-> "REGISTER_NAME", phone_number |-> phone_number,
                       reply |-> "enter_name_prompt"]]
    /\ UNCHANGED <<users, contacts>>
    /\ UNCHANGED h
    /\ registration_only

\* handle_name (lines 336-346); the name itself is not part of the model
handle_name(user_id, text) ==
    /\ h.op = "none" /\ reg[user_id].state = "REGISTER_NAME"
    /\ reg' = [reg EXCEPT ![user_id] =
                 IF strip(text) = "" THEN [@ EXCEPT !.reply = "name_empty"]
                 ELSE [@ EXCEPT !.state = "REGISTER_SURNAME", !.reply = "enter_surname_prompt"]]
    /\ UNCHANGED <<users, contacts>>
    /\ UNCHANGED h
    /\ registration_only

\* handle_surname (lines 348-366)
handle_surname(user_id, text) ==
    /\ h.op = "none" /\ reg[user_id].state = "REGISTER_SURNAME"
    /\ reg' = [reg EXCEPT ![user_id] =
                 IF strip(text) = "" THEN [@ EXCEPT !.reply = "surname_empty"]
                 ELSE [@ EXCEPT !.state = "REGISTER_ROLE", !.reply = "choose_role_prompt"]]
    /\ UNCHANGED <<users, contacts>>
    /\ UNCHANGED h
    /\ registration_only

\* create_user's commit (line 120) raises IntegrityError when the phone number is
\* held by a stored user: phone_number is declared unique (line 64)
create_user_raises(cs, phone_number) == \E u \in DOMAIN cs : cs[u] = phone_number

\* set_role up to the await of its reply (lines 368-401): the role is the second
\* token of the callback data.  An exception of create_user leaves the handler: no
\* reply is sent, and the conversation stays in its state.  The user is committed
\* by create_user (line 120) before the reply registration_success is awaited;
\* until the handler returns the conversation is in REGISTER_ROLE.
set_role(user_id, data) ==
    /\ h.op = "none" /\ reg[user_id].state = "REGISTER_ROLE"
    /\ LET role == data[2]
           phone_number == reg[user_id].phone_number
       IN
       IF user_id \in DOMAIN users
       THEN /\ reg' = [reg EXCEPT ![user_id].reply = "already_registered"]
            /\ h' = Replying("set_role", "already_registered", 0, user_id)
            /\ UNCHANGED <<users, contacts>>
       ELSE IF create_user_raises(contacts, phone_number)
       THEN /\ reg' = [reg EXCEPT ![user_id].reply = "IntegrityError"]
            /\ UNCHANGED <<users, contacts, h>>
       ELSE /\ users' = users @@ (user_id :> role)
            /\ contacts' = contacts @@ (user_id :> phone_number)
            /\ reg' = [reg EXCEPT ![user_id].reply = "registration_success"]
            /\ h' = Replying("set_role", "registration_success", 0, user_id)
    /\ registration_only

\* set_role when its reply and the menu have been sent (lines 386-396, 401-411):
\* the handler returns ConversationHandler.END; a reply that raises leaves the
\* handler by its exception and the conversation in REGISTER_ROLE, the user stored.
\* For a user already registered with a role that is neither rector nor staff,
\* line 394 calls update.message.reply_text; the update is a callback query, its
\* message is None, and the AttributeError leaves the handler before line 396.
set_role_returned(ok) ==
    /\ h.op = "set_role"
    /\ h' = NoHandler
    /\ LET role_not_recognized ==
               h.pc = "already_registered" /\ users[h.u] \notin {"rector", "staff"}
       IN
       reg' = IF ok /\ ~role_not_recognized
              THEN [reg EXCEPT ![h.u] = [NoRegistration EXCEPT !.reply = reg[h.u].reply]]
              ELSE reg
    /\ UNCHANGED <<users, contacts>>
    /\ registration_only

\* cancel (lines 793-800) as the fallback of the registration conversation
registration_conv_cancel(user_id) ==
    /\ h.op = "none" /\ reg[user_id].state # "END"
    /\ reg' = [reg EXCEPT ![user_id] = [NoRegistration EXCEPT !.reply = "operation_cancelled"]]
    /\ UNCHANGED <<users, contacts>>
    /\ UNCHANGED h
    /\ registration_only

NextRegister ==
    \/ \E u \in Registrants : register(u)
    \/ \E u \in Registrants, p \in PhoneInputs : handle_contact(u, p)
    \/ \E u \in Registrants, text \in NameInputs : handle_name(u, text)
    \/ \E u \in Registrants, text \in NameInputs : handle_surname(u, text)
    \/ \E u \in Registrants, data \in RoleData : set_role(u, data)
    \/ \E ok \in BOOLEAN : set_role_returned(ok)
    \/ \E u \in Registrants : registration_conv_cancel(u)

\* The registration conversations of the registrants.
SpecRegister == Init /\ [][NextRegister]_vars

\* ---------------------------------------------------------------- comments
\* The comment conversation of a staff member next to the creation, acceptance,
\* completion and deletion of tasks, here over the task ids CommentTaskIds.
CommentTexts == {"b", " "}

\* SQLite assigns a comment the id one more than the largest in the table.
NextCommentId(cs) == IF DOMAIN cs = {} THEN 1 ELSE Max(DOMAIN cs) + 1

\* faulty variant: the comment is not stored
add_comment_lost(cs, task_id, user_id, comment_text, now) == cs

\* add_comment (lines 138-143): the timestamp is the time of the call
add_comment(cs, task_id, user_id, comment_text, now) ==
    cs @@ (NextCommentId(cs) :>
              [task_id |-> task_id, user_id |-> user_id, comment_text |-> comment_text,
               timestamp |-> now])

\* faulty variant: the assignment is not looked up when the text is submitted
has_assignment_unchecked(a, task_id, user_id) == TRUE

\* the query of lines 1173 and 1196: the user holds an assignment of the task
has_assignment(a, task_id, user_id) == task_id \in DOMAIN a /\ user_id \in DOMAIN a[task_id]

\* set_assignment_method with the choice assign_all, creating a task of CommentTaskIds
set_assignment_method_all_commented(notification_interval) ==
    /\ h.op = "none"
    /\ create_and_schedule_in(CommentTaskIds, "a", "d", 1, notification_interval,
                              StaffMembers(users))
    /\ UNCHANGED <<users, tick, h, nticks>>
    /\ UNCHANGED <<clock, conv, reg, contacts, comments>>

\* comment_task_start (lines 1165-1184), from the Comment button of a task.  The
\* handler is registered twice: as the entry point of comment_conv (line 1292) and
\* as a plain handler (line 1323).  With no conversation open the entry point runs
\* it and the conversation takes the state it returns.  In COMMENT_TASK comment_conv
\* handles text and /cancel only, so the button reaches the plain handler: line 1180
\* writes the task into user_data and the returned state is dropped.
comment_task_start(u, task_id) ==
    /\ h.op = "none"
    /\ conv.state = "END" \/ (conv.state = "COMMENT_TASK" /\ conv.user = u)
    /\ conv' = IF conv.state = "END"
               THEN IF has_assignment(asg, task_id, u)
                    THEN [NoConversation EXCEPT !.state = "COMMENT_TASK", !.user = u,
                                                !.user_data.comment_task_id = task_id]
                    ELSE NoConversation
               ELSE IF has_assignment(asg, task_id, u)
                    THEN [conv EXCEPT !.user_data.comment_task_id = task_id]
                    ELSE conv
    /\ user_data_only

\* handle_comment up to the await of its reply (lines 1186-1205)
handle_comment(text) ==
    /\ h.op = "none" /\ conv.state = "COMMENT_TASK"
    /\ LET comment_text == strip(text)
           task_id == conv.user_data.comment_task_id
           user_id == conv.user
           Reply(pc) == [Replying("comment", pc, task_id, user_id) EXCEPT !.arg = <<comment_text>>]
       IN
       IF comment_text = ""
       THEN h' = Reply("comment_empty") /\ UNCHANGED comments
       ELSE IF ~has_assignment(asg, task_id, user_id)
       THEN h' = Reply("not_assigned") /\ UNCHANGED comments
       ELSE /\ Cardinality(DOMAIN comments) < MaxComments
            /\ comments' = add_comment(comments, task_id, user_id, comment_text, clock.now)
            /\ h' = Reply("comment_added")
    /\ UNCHANGED <<users, tasks, asg, jobs, tick, notified, armLog, nticks, clock,
                   conv, reg, contacts>>

\* handle_comment when the reply comment_added returns (line 1206): the rectors
\* are notified in turn (lines 1208-1219), a failed send to one of them being
\* caught and logged.  A reply that raises leaves the handler by its exception:
\* the comment stays stored, no rector is notified and the conversation stays in
\* COMMENT_TASK.
handle_comment_replied(ok) ==
    /\ h.op = "comment" /\ h.pc = "comment_added"
    /\ h' = IF ok THEN [h EXCEPT !.pc = "notify", !.todo = Rectors(users)] ELSE NoHandler
    /\ UNCHANGED <<users, tasks, asg, jobs, tick, notified, armLog, nticks, clock,
                   conv, reg, contacts, comments>>

\* the state handle_comment returns after a reply (lines 1191, 1201, 1223)
handle_comment_returns(reply) == IF reply = "comment_empty" THEN "COMMENT_TASK" ELSE "END"

\* handle_comment returns: the conversation takes the returned state.  The
\* replies comment_empty and not_assigned are awaited before the return (lines
\* 1189, 1199): one that raises leaves the handler by its exception and the
\* conversation in COMMENT_TASK.  After the notifications nothing is left to raise.
handle_comment_returned(ok) ==
    /\ h.op = "comment" /\ h.pc # "comment_added"
    /\ h' = NoHandler
    /\ conv' = IF (ok \/ h.pc = "notify") /\ handle_comment_returns(h.pc) = "END"
               THEN NoConversation ELSE conv
    /\ UNCHANGED <<users, tasks, asg, jobs, tick, notified, armLog, nticks, clock,
                   reg, contacts, comments>>

NextComment ==
    \/ \E i \in Intervals : set_assignment_method_all_commented(i)
    \/ \E t \in CommentTaskIds : confirm_delete_task(t)
    \/ confirm_delete_task_replied
    \/ \E t \in CommentTaskIds, u \in StaffMembers(users) : accept_task(t, u)
    \/ accept_task_replied
    \/ \E t \in CommentTaskIds, u \in StaffMembers(users) : complete_task(t, u)
    \/ complete_task_refused
    \/ \E ok \in BOOLEAN : complete_task_replied(ok)
    \/ complete_task_notified
    \/ \E t \in CommentTaskIds, u \in StaffMembers(users) : comment_task_start(u, t)
    \/ \E text \in CommentTexts : handle_comment(text)
    \/ \E ok \in BOOLEAN : handle_comment_replied(ok)
    \/ \E ok \in BOOLEAN : handle_comment_returned(ok)
    \/ cancel

\* Tasks with their assignments and comments: created, accepted, completed,
\* commented and deleted.
SpecComment == Init /\ [][NextComment]_vars

\* ------------------------------------------- edit_task_value called directly
\* edit_task_value with each field name edit_task_field can leave in user_data and
\* either outcome of its commit, on tasks created through assign_confirm with
\* either interval.  edit_task_field stores the third token of the callback data
\* (lines 823-824): 'notification' for the interval button.
EditFields == {edit_task_field(data) : data \in EditFieldButtons}
\* The intervals typed at the interval prompt of the creation in this specification.
EditCallIntervals == {5, 30}

\* The values given with each field name: a text for the texts, a date and a text
\* that is none for the deadline, every text for the two names of the interval.
EditValues(field) ==
    IF field \in {"title", "description"} THEN {"b"}
    ELSE IF field = "deadline" THEN {"b", "2025-01-01 10:00"}
    ELSE TextInputs

edit_task_value_direct(task_id, field, new_value, committed) ==
    edit_task_value_call(task_id, field, new_value, <<field, new_value>>, committed)

NextEditCall ==
    \/ \E s \in SUBSET StaffMembers(users), i \in EditCallIntervals : assign_confirm(s, i)
    \/ \E t \in TaskIds : confirm_delete_task(t)
    \/ confirm_delete_task_replied
    \/ \E t \in TaskIds, field \in EditFields, committed \in BOOLEAN :
           \E v \in EditValues(field) : edit_task_value_direct(t, field, v, committed)
    \/ edit_task_value_replied

SpecEditCall == Init /\ [][NextEditCall]_vars

\* ------------------------------------------------ handler: manual reminder
\* faulty variant: the status test of the loop is dropped
remind_recipients_everyone(a) == DOMAIN a

\* lines 996-998: the assignments of the task whose status is not Completed
remind_recipients(a) == {u \in DOMAIN a : a[u] # "Completed"}

\* send_reminder_to_assignees up to its first await after the task is loaded (lines
\* 984-1001).  While it runs the handler keeps, in arg, the messages attempted per
\* assignee and whether a delivery has failed.
send_reminder_to_assignees(t) ==
    /\ h.op = "none"
    /\ IF t \notin DOMAIN tasks
       THEN h' = Replying("remind", "task_not_found", t, 0)
       ELSE LET rest == remind_recipients(asg[t])
                none == [x \in DOMAIN asg[t] |-> 0]
            IN IF rest = {}
               THEN h' = [Replying("remind", "reply", t, 0) EXCEPT !.arg = <<none, FALSE>>]
               ELSE LET u == First(rest) IN
                    h' = [Replying("remind", "loop", t, 0) EXCEPT
                             !.todo = rest \ {u},
                             !.arg = <<[none EXCEPT ![u] = 1], FALSE>>]
    /\ UNCHANGED <<users, tasks, asg, jobs, tick, notified, armLog, nticks>>
    /\ UNCHANGED <<clock, conv, reg, contacts, comments>>

\* the loop from the return of one send_message to the next, or to the final reply
\* (lines 996-1006); a failed delivery is caught and logged
send_reminder_to_assignees_resume(ok) ==
    /\ h.op = "remind" /\ h.pc = "loop"
    /\ IF h.todo = {}
       THEN h' = [h EXCEPT !.pc = "reply", !.arg[2] = @ \/ ~ok]
       ELSE LET u == First(h.todo) IN
            h' = [h EXCEPT !.todo = @ \ {u}, !.arg[1][u] = @ + 1, !.arg[2] = @ \/ ~ok]
    /\ UNCHANGED <<users, tasks, asg, jobs, tick, notified, armLog, nticks>>
    /\ UNCHANGED <<clock, conv, reg, contacts, comments>>

\* the handler ends when its reply returns (lines 992-994, 1006-1007)
send_reminder_to_assignees_replied ==
    /\ h.op = "remind" /\ h.pc \in {"reply", "task_not_found"}
    /\ h' = NoHandler
    /\ UNCHANGED <<users, tasks, asg, jobs, tick, notified, armLog, nticks>>
    /\ UNCHANGED <<clock, conv, reg, contacts, comments>>

NextManual ==
    \/ \E s \in SUBSET StaffMembers(users), i \in Intervals : assign_confirm(s, i)
    \/ \E t \in TaskIds : confirm_delete_task(t)
    \/ confirm_delete_task_replied
    \/ \E t \in TaskIds, u \in StaffMembers(users) : accept_task(t, u)
    \/ accept_task_replied
    \/ \E t \in TaskIds, u \in StaffMembers(users) : complete_task(t, u)
    \/ complete_task_refused
    \/ \E ok \in BOOLEAN : complete_task_replied(ok)
    \/ complete_task_notified
    \/ \E t \in TaskIds, u \in StaffMembers(users) : comment_task_start(u, t)
    \/ \E text \in CommentTexts : handle_comment(text)
    \/ \E ok \in BOOLEAN : handle_comment_replied(ok)
    \/ \E ok \in BOOLEAN : handle_comment_returned(ok)
    \/ cancel
    \/ \E t \in TaskIds : send_reminder_to_assignees(t)
    \/ \E ok \in BOOLEAN : send_reminder_to_assignees_resume(ok)
    \/ send_reminder_to_assignees_replied

\* The handlers of a task assigned to a selection of the staff: created, deleted,
\* accepted, completed, commented, and reminded of by a rector.
SpecManual == Init /\ [][NextManual]_vars

\* ------------------------------------------------ the ticks, scheduled fairly
\* The interval trigger fires again and again for as long as the job is armed
\* (lines 149-153); the count of the ticks stops at MaxTicks.
job_fires_again(t) ==
    /\ t \in JobIds(jobs)
    /\ tick[t].pc = "idle"
    /\ tick' = [tick EXCEPT ![t].pc = "dispatched"]
    /\ nticks' = IF nticks < MaxTicks THEN nticks + 1 ELSE nticks
    /\ UNCHANGED <<users, tasks, asg, jobs, h, notified, armLog>>
    /\ UNCHANGED <<clock, conv, reg, contacts, comments>>

NextFair ==
    \/ NextManual
    \/ \E t \in TaskIds : job_fires_again(t)
    \/ \E t \in TaskIds : send_reminder(t)
    \/ \E t \in TaskIds : send_reminder_raised(t)
    \/ \E t \in TaskIds, ok \in BOOLEAN : send_reminder_resume(t, ok)

\* The scheduler runs on the event loop of the bot: an armed job whose previous
\* run has ended fires, and a dispatched run of send_reminder is carried on.
FairTicks ==
    \A t \in TaskIds :
        /\ WF_vars(job_fires_again(t))
        /\ WF_vars(send_reminder(t))
        /\ WF_vars(send_reminder_raised(t))
        /\ WF_vars(\E ok \in BOOLEAN : send_reminder_resume(t, ok))

\* The handlers of a task together with the ticks of its job, scheduled fairly.
SpecFair == Init /\ [][NextFair]_vars /\ FairTicks

\* ================================================================= claims
\* The completion condition of a task: at least one assignment, all Completed.
CompletionCondition(a) == DOMAIN a # {} /\ \A u \in DOMAIN a : a[u] = "Completed"

\* A reminder is handed to the notifier for user u by the tick of task t in this step.
ReminderSentNow(t, u) ==
    /\ tick'[t].pc = "loop"
    /\ u \in DOMAIN tick'[t].sent
    /\ tick'[t].sent[u] >
         (IF tick[t].pc = "loop" /\ u \in DOMAIN tick[t].sent THEN tick[t].sent[u] ELSE 0)

\* C1: whenever no operation is in progress, a reminder job exists for a task id
\* if and only if the task exists and its completion condition is false.
C1_JobIffTaskIncomplete ==
    h.op = "none" =>
        \A t \in TaskIds :
            (t \in JobIds(jobs)) <=> (t \in DOMAIN tasks /\ ~CompletionCondition(asg[t]))

\* C2: the job store never holds two jobs with the same id, and a job id armed
\* since its last removal has exactly the job carrying the interval supplied last.
C2_OneJobWithLatestInterval ==
    \A id \in ArmIds :
        /\ Cardinality({j \in jobs : j.id = id}) <= 1
        /\ armLog[id] # <<>> =>
               {j \in jobs : j.id = id} =
                   {[id |-> id, interval |-> armLog[id][Len(armLog[id])]]}

\* C2 witness: a job id armed twice in a row with two different intervals.
C2_Witness ==
    \E id \in ArmIds :
        /\ Len(armLog[id]) = 2
        /\ armLog[id][1] # armLog[id][2]
        /\ [id |-> id, interval |-> armLog[id][2]] \in jobs

\* C3: once the complete operation that made a task complete has ended, the task
\* has no reminder job and each approver has been sent exactly one completion message.
C3_CompleteDisarmsAndNotifiesOnce ==
    h.op = "none" =>
        \A t \in DOMAIN tasks :
            CompletionCondition(asg[t]) =>
                /\ t \notin JobIds(jobs)
                /\ \A r \in Rectors(users) : notified[t][r] = 1

\* C4: no approver is ever sent more than one completion message for a task, and
\* when a tick of the task ran between the commit and the completion evaluation of
\* the complete operation, the evaluation has sent each approver exactly one.
C4_OneNotificationWhenTickRaces ==
    /\ \A t \in DOMAIN notified : \A r \in UserIds : notified[t][r] <= 1
    /\ (h.op = "complete" /\ h.pc = "notify" /\ h.todo = {} /\ h.raced) =>
           \A r \in Rectors(users) : notified[h.t][r] = 1

\* C4 witness: the last of two assignees completed, a tick of the task ran between
\* the commit and the evaluation, and every approver has its one message.
C4_Witness ==
    /\ h.op = "complete" /\ h.pc = "notify" /\ h.todo = {} /\ h.raced
    /\ Cardinality(DOMAIN asg[h.t]) = 2
    /\ h.t \notin JobIds(jobs)
    /\ \A r \in Rectors(users) : notified[h.t][r] = 1

\* C6: whenever no operation is in progress, every task whose completion condition
\* holds has had its completion message attempted for each approver.
C6_CompleteTaskWasEvaluated ==
    h.op = "none" =>
        \A t \in DOMAIN tasks :
            CompletionCondition(asg[t]) =>
                \A r \in Rectors(users) : notified[t][r] >= 1

\* C7: a tick that finds its task complete leaves the task without a job and each
\* approver with exactly one completion message (sent now if none was sent before).
C7_TickOnCompleteTaskNotifiesOnce ==
    [][\A t \in TaskIds :
          (/\ tick[t].pc = "dispatched"
           /\ tick'[t].pc = "idle"
           /\ t \in DOMAIN tasks
           /\ CompletionCondition(asg[t]))
          => /\ t \notin JobIds(jobs')
             /\ \A r \in Rectors(users) : notified'[t][r] = 1]_vars

\* C8: a tick on an existing incomplete task works on the statuses it read at its
\* start and, by the time it ends, has attempted exactly one reminder to each
\* assignee read as Pending or Accepted and none to an assignee read as Completed.
C8_TickRemindsOutstandingOnce ==
    [][\A t \in TaskIds :
          /\ (/\ tick[t].pc = "dispatched"
              /\ tick'[t].pc # "dispatched"
              /\ t \in DOMAIN tasks
              /\ \E u \in DOMAIN asg[t] : asg[t][u] \in {"Pending", "Accepted"})
             => (tick'[t].pc = "loop" /\ tick'[t].snap = asg[t])
          /\ (tick[t].pc = "loop" /\ tick'[t].pc = "idle")
             => \A u \in DOMAIN tick[t].snap :
                    tick[t].sent[u] =
                        IF tick[t].snap[u] \in {"Pending", "Accepted"} THEN 1 ELSE 0]_vars

\* C8 witness: a tick has issued all its reminders: one to an assignee who had
\* accepted, none to an assignee who had completed.
C8_Witness ==
    \E t \in TaskIds :
        /\ tick[t].pc = "loop"
        /\ \E u, v \in DOMAIN tick[t].snap :
              /\ tick[t].snap[u] = "Accepted" /\ tick[t].sent[u] = 1
              /\ tick[t].snap[v] = "Completed" /\ tick[t].sent[v] = 0

\* C9: a tick does not stop while an outstanding assignee it read has not been
\* sent a reminder, whatever the result of the delivery before, and the step that
\* handles a failed delivery changes no job, no task and no assignment.
C9_DeliveryFailureDoesNotStopTick ==
    [][\A t \in TaskIds :
          (tick[t].pc = "loop" /\ tick'[t] # tick[t]) =>
              LET unsent == {u \in DOMAIN tick[t].snap :
                                tick[t].snap[u] # "Completed" /\ tick[t].sent[u] = 0}
              IN /\ unsent # {} =>
                        /\ tick'[t].pc = "loop"
                        /\ \E u \in unsent : tick'[t].sent[u] = 1
                 /\ (tick'[t].pc = "loop" /\ tick'[t].failed /\ ~tick[t].failed) =>
                        (jobs' = jobs /\ tasks' = tasks /\ asg' = asg)]_vars

\* C9 witness: the first delivery of a tick failed, the second assignee has been
\* sent the reminder all the same, and the job of the task is still armed.
C9_Witness ==
    \E t \in TaskIds :
        /\ tick[t].pc = "loop" /\ tick[t].failed
        /\ Cardinality(DOMAIN tick[t].snap) = 2
        /\ \A u \in DOMAIN tick[t].snap : tick[t].sent[u] = 1
        /\ t \in JobIds(jobs)

\* C10: no tick hands a reminder to the notifier for an assignee whose Completed
\* status for that task is already committed.
C10_NoReminderAfterCompletedCommit ==
    [][\A t \in TaskIds : \A u \in UserIds :
          ReminderSentNow(t, u) =>
              ~(t \in DOMAIN asg /\ u \in DOMAIN asg[t] /\ asg[t][u] = "Completed")]_vars

\* The step is the start of the tick of task t: send_reminder runs to its first
\* await or to its end.
TickStarts(t) == tick[t].pc = "dispatched" /\ tick'[t].pc # "dispatched"

\* C11: a tick whose task is absent from the store leaves no job for that id,
\* sends no message and does not fail: after the step in which send_reminder runs
\* for an absent task the job store holds no job of the id, the coroutine has
\* ended without a reminder sent and without an exception, and no completion
\* message was sent.
C11_TickOnAbsentTaskDisarms ==
    [][\A t \in TaskIds :
          (TickStarts(t) /\ t \notin DOMAIN tasks) =>
              /\ t \notin JobIds(jobs')
              /\ tick'[t] = IdleTick
              /\ notified' = notified]_vars

\* C11 witness: the delete handler has deleted the task and awaits its reply while
\* a tick of the task, dispatched before, is about to run.
C11_Witness ==
    /\ h.op = "delete" /\ h.pc = "deleted"
    /\ tick[h.t].pc = "dispatched"
    /\ h.t \notin DOMAIN tasks

\* C12: the step that deletes a task leaves no job for its id, and a tick that
\* starts when its task has been deleted sends no message, changes nothing of the
\* store or of the job store and raises no error.
C12_DeleteDisarmsAndLateTickIsNoOp ==
    [][\A t \in TaskIds :
          /\ (t \in DOMAIN tasks /\ t \notin DOMAIN tasks') => t \notin JobIds(jobs')
          /\ (TickStarts(t) /\ t \notin DOMAIN tasks) =>
                 /\ tick'[t] = IdleTick
                 /\ UNCHANGED <<users, tasks, asg, jobs, notified>>]_vars

\* C12 witness: the tick of a task was dispatched while its job was armed, the
\* task has been deleted since, and the tick is about to run.
C12_Witness ==
    \E t \in TaskIds :
        /\ tick[t].pc = "dispatched"
        /\ t \notin DOMAIN tasks
        /\ t \notin JobIds(jobs)
        /\ h.op = "none"

\* C13: no path that cancels a job raises an error when the job is absent; the
\* handlers catch it, so the claim is that no tick ever ends by an exception.
C13_CancellingAbsentJobNeverRaises ==
    \A t \in TaskIds : tick[t].pc # "raised"

\* C14: a task with zero assignments is never treated as complete: a tick on it
\* keeps its job, sends no reminder and raises nothing, and no completion message
\* is ever sent for it.
C14_NoAssignmentsIsNotComplete ==
    [][\A t \in DOMAIN tasks :
          DOMAIN asg[t] = {} =>
              /\ \A r \in UserIds : notified[t][r] = 0
              /\ TickStarts(t) => (tick'[t] = IdleTick /\ jobs' = jobs)]_vars

\* The order of the statuses.
Rank(status) == IF status = "Pending" THEN 1 ELSE IF status = "Accepted" THEN 2 ELSE 3

\* The step starts the handler op for task t and user u, who holds an assignment of t.
Requests(op, t, u) ==
    /\ h.op = "none" /\ h'.op = op /\ h'.t = t /\ h'.u = u
    /\ t \in DOMAIN asg /\ u \in DOMAIN asg[t]

\* The step leaves the store and the job store as they are.
StoreUnchanged == UNCHANGED <<users, tasks, asg, jobs, notified>>

\* C15: every status is Pending, Accepted or Completed, an assignment starts as
\* Pending, and no step moves a status backwards: a Completed one stays Completed.
C15_StatusOnlyMovesForward ==
    [][\A t \in DOMAIN asg' :
          IF t \in DOMAIN asg
          THEN /\ DOMAIN asg'[t] = DOMAIN asg[t]
               /\ \A u \in DOMAIN asg[t] :
                     /\ asg[t][u] \in {"Pending", "Accepted", "Completed"}
                     /\ asg'[t][u] \in {"Pending", "Accepted", "Completed"}
                     /\ Rank(asg'[t][u]) >= Rank(asg[t][u])
          ELSE \A u \in DOMAIN asg'[t] : asg'[t][u] = "Pending"]_vars

\* C15 witness: accept has been requested on a Completed assignment of a task
\* that was edited and ticked, and the assignment is still Completed.
C15_Witness ==
    /\ h.op = "accept" /\ h.t \in DOMAIN asg /\ h.u \in DOMAIN asg[h.t]
    /\ asg[h.t][h.u] = "Completed"
    /\ tasks[h.t].title = "b"
    /\ nticks >= 1

\* C16: accept changes a Pending assignment to Accepted and leaves an Accepted or
\* Completed one as it is, answering that the task is already accepted; complete
\* changes a Pending or Accepted assignment to Completed.
C16_AcceptFromPendingCompleteFromBoth ==
    [][\A t \in TaskIds : \A u \in UserIds :
          /\ Requests("accept", t, u) =>
                IF asg[t][u] = "Pending"
                THEN asg' = [asg EXCEPT ![t][u] = "Accepted"]
                ELSE asg' = asg /\ h'.pc = "task_already_accepted"
          /\ (Requests("complete", t, u) /\ asg[t][u] \in {"Pending", "Accepted"}) =>
                asg' = [asg EXCEPT ![t][u] = "Completed"]]_vars

\* C16 witness: an assignee completed without accepting first, and another one,
\* who had accepted, accepts again and is told the task is already accepted.
C16_Witness ==
    /\ h.op = "accept" /\ h.pc = "task_already_accepted"
    /\ h.t \in DOMAIN asg /\ h.u \in DOMAIN asg[h.t]
    /\ asg[h.t][h.u] = "Accepted"
    /\ \E v \in DOMAIN asg[h.t] : asg[h.t][v] = "Completed"

\* C17: a repeated accept or complete leaves the status the first one set, and
\* from its request to its end it changes nothing of the store or of the job
\* store and sends no completion message.
C17_RepeatedRequestHasNoEffect ==
    [][/\ \A t \in TaskIds : \A u \in UserIds :
             /\ (Requests("accept", t, u) /\ asg[t][u] = "Accepted") =>
                    (StoreUnchanged /\ h'.pc = "task_already_accepted")
             /\ (Requests("complete", t, u) /\ asg[t][u] = "Completed") =>
                    (StoreUnchanged /\ h'.pc = "already_completed")
       /\ (h' # h /\ h.pc \in {"task_already_accepted", "already_completed"}) =>
              (StoreUnchanged /\ h' = NoHandler)]_vars

\* C17 witness: every assignee of a task has completed, the approvers have their
\* message, and one assignee requests complete again.
C17_Witness ==
    /\ h.op = "complete" /\ h.pc = "already_completed"
    /\ h.t \in DOMAIN asg /\ Cardinality(DOMAIN asg[h.t]) = 2
    /\ CompletionCondition(asg[h.t])
    /\ h.t \notin JobIds(jobs)
    /\ \A r \in Rectors(users) : notified[h.t][r] = 1

\* C18: an interval edit of an existing task with a positive integer N stores N
\* as the task's interval and leaves the task's job armed with interval N.
C18_IntervalEditStoresAndRearms ==
    [][\A t \in DOMAIN tasks :
          (/\ h.op = "none" /\ h'.op = "edit" /\ h'.t = t
           /\ h'.arg[1] = <<"edit", "field", "notification", "interval">>
           /\ isdigit(h'.arg[2]) /\ int(h'.arg[2]) > 0)
          => /\ tasks'[t].notification_interval = int(h'.arg[2])
             /\ [id |-> t, interval |-> int(h'.arg[2])] \in jobs']_vars

\* C19: the runs of a job since it was armed last, with interval I', are at the
\* start delay after that moment and then I' apart, and so is its next run: no run
\* time computed from an earlier arming is left.
C19_TicksFollowTheLastArming ==
    \A id \in DOMAIN clock.timers :
        LET tm == clock.timers[id]
            period == armLog[id][Len(armLog[id])] * UnitsPerMinute
            RunTime(k) == tm.armed_at + StartDelay + (k - 1) * period
        IN /\ \A k \in 1..Len(tm.ran) : tm.ran[k] = RunTime(k)
           /\ tm.job.next_run_time = RunTime(Len(tm.ran) + 1)

\* C19 witness: a job was armed again, with another interval, before its first
\* run, and has run twice since.
C19_Witness ==
    \E id \in DOMAIN clock.timers :
        /\ clock.timers[id].replaced_unrun
        /\ clock.timers[id].armed_at > 0
        /\ Len(armLog[id]) = 2 /\ armLog[id][1] # armLog[id][2]
        /\ Len(clock.timers[id].ran) = 2

\* C20: when the startup that follows a restart has finished, a job exists for a
\* task id if and only if the task is stored and its completion condition is false.
C20_StartupRearmsIncompleteTasks ==
    [][(h.op = "startup" /\ h'.op = "none") =>
          \A t \in TaskIds :
              (t \in JobIds(jobs')) <=> (t \in DOMAIN tasks' /\ ~CompletionCondition(asg'[t]))]_vars

\* The pressed edit button asks for a deadline or an interval and the typed value
\* is not a valid one.
InvalidEditValue(data, value) ==
    \/ data = <<"edit", "field", "deadline">> /\ strptime(value) = -1
    \/ /\ data = <<"edit", "field", "notification", "interval">>
       /\ (~isdigit(value) \/ int(value) <= 0)

\* C21: a malformed deadline or a non-numeric or non-positive interval typed in
\* the creation or the edit conversation changes neither the store nor the jobs,
\* and the conversation stays in the state that asked for the value.
C21_InvalidValueIsRejectedInPlace ==
    [][/\ (/\ conv.state = "RECTOR_TASK_DEADLINE" /\ conv' # conv /\ conv' # NoConversation
           /\ strptime(strip(conv'.text)) = -1)
          => StoreUnchanged /\ jobs' = jobs /\ conv'.state = conv.state
       /\ (/\ conv.state = "RECTOR_TASK_NOTIFICATION_INTERVAL" /\ conv' # conv
           /\ conv' # NoConversation
           /\ (~isdigit(strip(conv'.text)) \/ int(strip(conv'.text)) <= 0))
          => StoreUnchanged /\ jobs' = jobs /\ conv'.state = conv.state
       /\ (/\ h.op = "none" /\ h'.op = "edit" /\ h'.t \in DOMAIN tasks
           /\ InvalidEditValue(h'.arg[1], h'.arg[2]))
          => StoreUnchanged /\ jobs' = jobs
       /\ (/\ h.op = "edit" /\ h'.op = "none" /\ h.t \in DOMAIN tasks
           /\ InvalidEditValue(h.arg[1], h.arg[2]))
          => conv'.state = conv.state /\ conv.state = "EDIT_TASK_VALUE"]_vars

\* C22: after any sequence of creations and edits, every stored task has a
\* non-empty title and a positive notification interval.
C22_TitleNonEmptyIntervalPositive ==
    \A t \in DOMAIN tasks :
        tasks[t].title # "" /\ tasks[t].notification_interval > 0

\* C24: a step that creates, edits or deletes a task, or changes the jobs, is taken
\* for a registered user whose role is rector.
C24_OnlyRectorsChangeTasks ==
    [][(tasks' # tasks \/ asg' # asg \/ jobs' # jobs) => conv.user \in Rectors(users)]_vars

\* C29: a step that stores a new task stores with it one assignment for every
\* chosen assignee that names a stored user and leaves its reminder job armed.
C29_CreationIsAllOrNothing ==
    [][\A id \in DOMAIN tasks' \ DOMAIN tasks :
          /\ DOMAIN asg'[id] = (IF conv.state = "RECTOR_TASK_ASSIGNEE"
                                THEN conv.user_data.selected_staff_ids \cap DOMAIN users
                                ELSE StaffMembers(users))
          /\ id \in JobIds(jobs')]_vars

\* C23: no two stored users share a phone number, and no registration ends in the
\* failure of the insert: an attempt with a number that is taken is answered.
C23_OneUserPerContactNoFailure ==
    /\ \A u, v \in DOMAIN contacts : contacts[u] = contacts[v] => u = v
    /\ \A u \in DOMAIN reg : reg[u].reply # "IntegrityError"

\* C27: the role of every stored user is rector or staff.
C27_RoleIsRectorOrStaff ==
    \A u \in DOMAIN users : users[u] \in {"rector", "staff"}

\* The comments of task t.
CommentsOf(cs, t) == {c \in DOMAIN cs : cs[c].task_id = t}

\* C25: a step that deletes a task leaves no assignment and no comment of it, and
\* leaves the assignments and the comments of every other task as they were.
C25_DeleteCascades ==
    [][\A t \in DOMAIN tasks \ DOMAIN tasks' :
          /\ t \notin DOMAIN asg'
          /\ CommentsOf(comments', t) = {}
          /\ \A o \in DOMAIN tasks \ {t} :
                 /\ o \in DOMAIN asg' /\ asg'[o] = asg[o]
                 /\ CommentsOf(comments', o) = CommentsOf(comments, o)
                 /\ \A c \in CommentsOf(comments, o) : comments'[c] = comments[c]]_vars

\* C25 witness: a task was deleted together with its comment, the first one
\* stored, while the comment of the other task is kept.
C25_Witness ==
    /\ h.op = "delete" /\ h.pc = "deleted"
    /\ DOMAIN comments = {2}
    /\ comments[2].task_id # h.t
    /\ comments[2].task_id \in DOMAIN asg

\* C26: a stored comment never changes and disappears only in the step deleting
\* its task; a comment is added only with a non-empty text, for a user holding an
\* assignment of the task when the text is submitted; every comment belongs to a
\* stored task.
C26_CommentsAppendOnly ==
    [][/\ \A c \in DOMAIN comments :
             IF c \in DOMAIN comments'
             THEN comments'[c] = comments[c]
             ELSE comments[c].task_id \in DOMAIN tasks \ DOMAIN tasks'
       /\ \A c \in DOMAIN comments' \ DOMAIN comments :
             /\ comments'[c].comment_text # ""
             /\ comments'[c].task_id \in DOMAIN asg
             /\ comments'[c].user_id \in DOMAIN asg[comments'[c].task_id]
       /\ \A c \in DOMAIN comments' : comments'[c].task_id \in DOMAIN tasks']_vars

\* C26 witness: a text submitted for a task deleted since the conversation began
\* is refused, while the comment stored for the other task is kept.
C26_Witness ==
    /\ h.op = "comment" /\ h.pc = "not_assigned"
    /\ h.t \notin DOMAIN tasks
    /\ comments # Empty

\* C28: when accept, complete, add-comment or delete hands its confirmation to the
\* notifier, the change it confirms is in the store; a completion message is sent
\* for a task whose stored assignments are all Completed; and a handler whose
\* message is in flight writes nothing more to the tasks, assignments or comments.
C28_MessagesFollowTheCommit ==
    [][/\ (h.op = "none" /\ h'.op = "accept" /\ h'.pc = "task_accepted")
          => asg'[h'.t][h'.u] = "Accepted"
       /\ (h.op = "none" /\ h'.op = "complete" /\ h'.pc = "reply")
          => asg'[h'.t][h'.u] = "Completed"
       /\ (h.op = "none" /\ h'.op = "comment" /\ h'.pc = "comment_added")
          => \E c \in DOMAIN comments' :
                /\ comments'[c].task_id = h'.t /\ comments'[c].user_id = h'.u
                /\ comments'[c].comment_text = h'.arg[1]
       /\ (h.op = "none" /\ h'.op = "delete" /\ h'.pc = "deleted")
          => h'.t \notin DOMAIN tasks' /\ h'.t \notin DOMAIN asg'
       /\ \A t \in DOMAIN notified \cap DOMAIN notified' :
             notified'[t] # notified[t] => CompletionCondition(asg'[t])
       /\ h.op # "none" => UNCHANGED <<tasks, asg, comments>>]_vars

\* C28 witness: the reply of a stored comment has returned and the rectors are
\* being notified of it.
C28_Witness ==
    /\ h.op = "comment" /\ h.pc = "notify"
    /\ \E c \in DOMAIN comments : comments[c].task_id = h.t /\ comments[c].user_id = h.u

\* C30: every reminder job in the job store belongs to a stored task.
C30_NoJobWithoutTask ==
    JobIds(jobs) \subseteq DOMAIN tasks

\* C30 witness: a task was deleted after its tick was dispatched, an edit then
\* found it gone, and no job is left.
C30_Witness ==
    /\ h.op = "edit" /\ h.pc = "task_not_found"
    /\ tick[h.t].pc = "dispatched"
    /\ jobs = {}

\* C31: the interval of every armed job is the stored notification interval of
\* its task, whatever the outcome of the commit of an edit.
C31_JobIntervalIsStoredInterval ==
    \A j \in jobs :
        j.id \in DOMAIN tasks => j.interval = tasks[j.id].notification_interval

\* C31 witness: a task stored with interval 30 has its job armed with 30, and an
\* edit of its interval to 5, with the field name the interval button leaves in
\* user_data, has been answered with the task and the job as they were.
C31_Witness ==
    /\ h.op = "edit" /\ h.pc = "invalid_field" /\ h.arg = <<"notification", "5">>
    /\ h.t \in DOMAIN tasks /\ tasks[h.t].notification_interval = 30
    /\ [id |-> h.t, interval |-> 30] \in jobs

\* C32: an edit of the title, the description or the deadline of a task leaves
\* the jobs, every assignment and the interval of every task as they were.
C32_FieldEditKeepsJobsAndStatuses ==
    [][(/\ h.op = "none" /\ h'.op = "edit"
        /\ h'.arg[1] \in {"title", "description", "deadline"})
       => /\ jobs' = jobs
          /\ asg' = asg
          /\ DOMAIN tasks' = DOMAIN tasks
          /\ \A t \in DOMAIN tasks :
                 tasks'[t].notification_interval = tasks[t].notification_interval]_vars

\* C32 witness: the deadline of a task with an armed job has been edited and the
\* reply is on its way.
C32_Witness ==
    /\ h.op = "edit" /\ h.pc = "updated" /\ h.arg[1] = "deadline"
    /\ tasks[h.t].deadline = strptime(h.arg[2])
    /\ h.t \in JobIds(jobs)
    /\ DOMAIN asg[h.t] = {3, 4}

\* C33: the manual reminder attempts, by the time it ends, exactly one message to
\* each assignee of the task whose status is not Completed and none to the others,
\* also when a delivery failed; no step of it changes a job, an assignment or a
\* task.
C33_ManualReminderOnlySends ==
    [][/\ (h.op = "remind" \/ h'.op = "remind")
          => UNCHANGED <<tasks, asg, jobs, notified>>
       /\ (h.op = "remind" /\ h.pc = "reply" /\ h'.op = "none")
          => \A u \in DOMAIN asg[h.t] :
                h.arg[1][u] = (IF asg[h.t][u] # "Completed" THEN 1 ELSE 0)]_vars

\* C33 witness: the manual reminder of a task with a Completed and a not
\* Completed assignee has gone through its loop, a delivery failed on the way.
C33_Witness ==
    /\ h.op = "remind" /\ h.pc = "reply"
    /\ h.arg[2]
    /\ \E u, v \in DOMAIN asg[h.t] : asg[h.t][u] = "Completed" /\ asg[h.t][v] # "Completed"

\* C34: the completion test of the tick (all over the assignments) and the
\* completion test of the complete path (no assignments: not complete; otherwise
\* all) give the same answer on the assignments of every stored task, the task
\* without assignments included.
C34_CompletionTestsAgree ==
    \A t \in DOMAIN asg : all_completed(asg[t]) = all_assignments_completed(asg[t])

\* C35: accept, complete and add-comment requested by a user who holds no
\* assignment of the task, the task deleted in the meantime included, are refused:
\* no step of the handler changes an assignment, a comment, a job or the
\* notifications sent to the approvers.
C35_UnassignedUserChangesNothing ==
    [][/\ (/\ h.op = "none"
           /\ h'.op \in {"accept", "complete", "comment"}
           /\ ~(h'.t \in DOMAIN asg /\ h'.u \in DOMAIN asg[h'.t]))
          => /\ h'.pc \in {"not_assigned", "comment_empty"}
             /\ UNCHANGED <<asg, comments, jobs, notified>>
       /\ (/\ h.op \in {"accept", "complete", "comment"}
           /\ h.pc \in {"not_assigned", "comment_empty"})
          => /\ h'.op = "none"
             /\ UNCHANGED <<asg, comments, jobs, notified>>]_vars

\* C35 witness: a staff member without an assignment of a stored task, which
\* another one holds and whose job is armed, has asked to complete it.
C35_Witness ==
    /\ h.op = "complete" /\ h.pc = "not_assigned"
    /\ h.t \in DOMAIN tasks /\ h.t \in JobIds(jobs)
    /\ h.u \notin DOMAIN asg[h.t] /\ asg[h.t] # Empty

\* C36: create_task stores, for the task it creates, one Pending assignment for
\* each supplied id that names a stored user and none for an id that names no
\* user, and leaves the assignments of the other tasks as they were.
C36_OneAssignmentPerKnownId ==
    [][(h.op = "none" /\ h'.op = "create_task") =>
          LET assignee_ids == h'.arg[1] IN
          /\ h'.t \notin DOMAIN asg
          /\ DOMAIN asg' = DOMAIN asg \cup {h'.t}
          /\ DOMAIN asg'[h'.t] = assignee_ids \cap DOMAIN users
          /\ \A u \in DOMAIN asg'[h'.t] : asg'[h'.t][u] = "Pending"
          /\ \A t \in DOMAIN asg : asg'[t] = asg[t]]_vars

\* C36 witness: create_task was given the id of a staff member and an id naming
\* no user, and has stored the task.
C36_Witness ==
    /\ h.op = "create_task"
    /\ h.arg[1] \cap DOMAIN users # {} /\ h.arg[1] \ DOMAIN users # {}
    /\ h.t \in DOMAIN tasks

\* C37: through the creation conversation no task is stored with zero
\* assignments; a confirmation with an empty selection, like an assignment to all
\* with no staff member stored, creates no task and arms no job; and a press on a
\* staff button toggles that member in the selection, so that two presses leave
\* the member unselected.
C37_NoTaskWithoutAssignee ==
    [][/\ \A id \in DOMAIN tasks' \ DOMAIN tasks : DOMAIN asg'[id] # {}
       /\ (/\ conv.state \in {"ASSIGNMENT_METHOD", "RECTOR_TASK_ASSIGNEE"}
           /\ \/ StaffMembers(users) = {}
              \/ conv.state = "RECTOR_TASK_ASSIGNEE" /\ conv.user_data.selected_staff_ids = {})
          => (conv'.state # "RECTOR_TASK_ASSIGNEE" => UNCHANGED <<tasks, asg, jobs>>)
       /\ (conv.state = "RECTOR_TASK_ASSIGNEE" /\ conv'.state = "RECTOR_TASK_ASSIGNEE"
           /\ conv' # conv /\ UNCHANGED tasks)
          => LET old == conv.user_data.selected_staff_ids
                 new == conv'.user_data.selected_staff_ids
             IN \E staff_id \in StaffIdInputs(users) :
                   new = (IF staff_id \in old THEN old \ {staff_id} ELSE old \cup {staff_id})]_vars

\* The states of the creation conversation before an assignment method is asked for.
EarlyCreationStates ==
    {"RECTOR_TASK_TITLE", "RECTOR_TASK_DESCRIPTION", "RECTOR_TASK_DEADLINE",
     "RECTOR_TASK_NOTIFICATION_INTERVAL"}

\* C38: the creation conversation asks for the title, the description, the
\* deadline and the interval in that order and moves on only with an accepted
\* value; a task is stored only from the assignment states, with the four values
\* held; a conversation ended from an earlier state leaves the store and the jobs
\* unchanged; and the step that stores a task arms its job.
C38_CreationFollowsTheConversation ==
    [][/\ (conv'.state # conv.state /\ conv'.state \in EarlyCreationStates \cup {"ASSIGNMENT_METHOD"})
          => \/ conv.state = "END" /\ conv'.state = "RECTOR_TASK_TITLE"
             \/ /\ conv.state = "RECTOR_TASK_TITLE" /\ conv'.state = "RECTOR_TASK_DESCRIPTION"
                /\ conv'.user_data.task_title # ""
             \/ /\ conv.state = "RECTOR_TASK_DESCRIPTION" /\ conv'.state = "RECTOR_TASK_DEADLINE"
                /\ conv'.user_data.task_description # ""
             \/ /\ conv.state = "RECTOR_TASK_DEADLINE"
                /\ conv'.state = "RECTOR_TASK_NOTIFICATION_INTERVAL"
                /\ conv'.user_data.task_deadline > 0
             \/ /\ conv.state = "RECTOR_TASK_NOTIFICATION_INTERVAL"
                /\ conv'.state = "ASSIGNMENT_METHOD"
                /\ conv'.user_data.task_notification_interval > 0
       /\ (conv'.state = "RECTOR_TASK_ASSIGNEE" /\ conv.state # conv'.state)
          => conv.state = "ASSIGNMENT_METHOD"
       /\ \A id \in DOMAIN tasks' \ DOMAIN tasks :
             /\ conv.state \in {"ASSIGNMENT_METHOD", "RECTOR_TASK_ASSIGNEE"}
             /\ tasks'[id] = create_task_row(conv.user_data.task_title,
                                             conv.user_data.task_description,
                                             conv.user_data.task_deadline,
                                             conv.user_data.task_notification_interval)
             /\ id \in JobIds(jobs')
       /\ (conv.state \in EarlyCreationStates /\ conv'.state = "END") => StoreUnchanged]_vars

\* C39: under fair scheduling of the ticks, whenever every assignment of a stored
\* task is Completed, the job of the task is absent some time later (or the task
\* has been deleted); and a step taken while a stored task has an assignment that
\* is not Completed removes its job only by deleting the task.
C39_CompletedTaskIsDisarmed ==
    /\ \A t \in TaskIds :
          (t \in DOMAIN tasks /\ CompletionCondition(asg[t]))
              ~> (t \notin DOMAIN tasks \/ t \notin JobIds(jobs))
    /\ [][\A t \in DOMAIN tasks \cap DOMAIN tasks' :
             (t \in JobIds(jobs) /\ \E u \in DOMAIN asg[t] : asg[t][u] # "Completed")
                 => t \in JobIds(jobs')]_vars

\* C39 witness: every assignment of a stored task is Completed, the handler of the
\* last completion has ended with the job still armed, and a tick is dispatched.
C39_Witness ==
    \E t \in DOMAIN tasks :
        /\ CompletionCondition(asg[t])
        /\ t \in JobIds(jobs)
        /\ h.op = "none"
        /\ tick[t].pc = "dispatched"

====
